---- MODULE Spec2Model ----
(***************************************************************************)
(* A model of the ambihue core: the zone buffer and colour averaging of    *)
(* src/src/color_mixer.py (ColorMixer), the default zone partition of      *)
(* src/ambihue.py and src/src/main.py, the polling loop of                 *)
(* src/src/main.py (AmbiHueMain.run), the pairing handshake of             *)
(* src/src/tv_discovery.py with the state file it shares with the setup of *)
(* src/ambihue.py, and the startup wait of src/src/ambilight_tv.py.        *)
(*                                                                         *)
(* Seven specifications share the module:                                  *)
(*   SpecMixer      a caller applying payloads to a ColorMixer and         *)
(*                  querying it;                                           *)
(*   SpecPartition  calls of the default zone partition;                   *)
(*   Spec           the controller's tick loop;                            *)
(*   SpecStatus     the tick loop over two status intervals;               *)
(*   SpecReassign   the tick loop in front of devices with few zones;      *)
(*   SpecPairing    runs of the setup that pair with the device;           *)
(*   SpecStartup    the wait for the device at startup.                    *)
(***************************************************************************)
EXTENDS Integers, Sequences, FiniteSets, TLC

(***************************************************************************)
(* Bounds of the model.                                                    *)
(***************************************************************************)
\* Largest total number of colour entries (left+top+right) of a payload.
MaxZones == 3
\* Longest position list handed to get_average_color.
MaxPositions == 3

(***************************************************************************)
(* The state.                                                              *)
(***************************************************************************)
VARIABLES
    \* ColorMixer (the controller's self._mixer)
    colors,                     \* _colors
    num_of_left_right_colors,   \* _num_of_left_right_colors
    \* a direct caller of a ColorMixer
    mpc,                        \* "idle", or "returned" from a call
    call,                       \* the call it came back from, and its outcome
    \* the default partition
    partCall,                   \* the last partition asked for, and the results
    \* AmbiHueMain
    runtime_error_threshold,    \* _runtime_error_threshold (configuration)
    black_screen_timeout_s,     \* _black_screen_timeout_s (configuration)
    light_setup,                \* _light_setup: the lights, in configuration order
    tv_error_cnt,               \* _tv_error_cnt
    tv_is_online,               \* _tv_is_online
    tv_has_content,             \* _tv_has_content
    hue,                        \* _hue: "None", or "Active" (a streaming session)
    black_since,                \* _black_since: <<>> for None, or <<timestamp>>
    frame_count,                \* _frame_count
    last_status_time,           \* _last_status_time
    \* the process and its clock
    pc,                         \* "running", "exited" (sys.exit) or "crashed"
    exit_code,                  \* the exit status once the process has ended
    now,                        \* time.time(), in whole seconds
    tick,                       \* what the last pass of the loop read and called
    \* the pairing handshake and the setup around it
    state_file,                 \* /data/ambihue_state.json
    writable,                   \* whether /data can be written to
    ppc,                        \* where the run is: "setup", "paired", "ended"
    runs,                       \* the number of restarts so far
    pcall,                      \* the last call of the pairing flow, and its outcome
    last_op,                    \* the last step of the setup
    \* the startup wait
    wait_for_startup_s,         \* _wait_for_startup_s (configuration)
    wpc,                        \* "waiting", "returned" or "raised"
    cnt,                        \* the iterations of the wait loop so far
    probes,                     \* the answers of the probes so far
    was_offline,                \* was_offline / "_was_enabled is False"
    sleeps                      \* the sleeps of the wait so far, in order

mixerVars == <<colors, num_of_left_right_colors>>

callerVars == <<mpc, call>>

partVars == <<partCall>>

ctlVars == <<runtime_error_threshold, black_screen_timeout_s, light_setup, tv_error_cnt,
             tv_is_online, tv_has_content, hue, black_since, frame_count,
             last_status_time, pc, exit_code, now, tick>>

pairVars == <<state_file, writable, ppc, runs, pcall, last_op>>

waitVars == <<wait_for_startup_s, wpc, cnt, probes, was_offline, sleeps>>

setupVars == <<pairVars, waitVars>>

vars == <<mixerVars, callerVars, partVars, ctlVars, setupVars>>

(***************************************************************************)
(* Colours.  Color (src/src/colors.py) holds three integer channels; it is *)
(* a tuple <<red, green, blue>> here.                                      *)
(***************************************************************************)
Color(red, green, blue) == <<red, green, blue>>

\* is_all_black's default threshold.
DefaultThreshold == 15

\* Two colours of the device: the first has no channel above the default
\* threshold (one channel is equal to it), the second has one channel above.
ColorA == Color(15, 0, 7)
ColorB == Color(16, 15, 0)
Colors == {ColorA, ColorB}

\* A colour entry that is not a three-channel object: Color(*values) gets
\* two arguments and raises TypeError.
BadEntry == <<16, 15>>

Entries == Colors \cup {BadEntry}

\* The thresholds is_all_black is called with.
Thresholds == {0, DefaultThreshold, 16}

(***************************************************************************)
(* Payloads: the JSON object of the device.  keys holds the keys that are  *)
(* present ("layer1", and "left", "top", "right" below it); left, top and  *)
(* right are the values of the mappings in their iteration order (empty    *)
(* when the key is absent).                                                *)
(***************************************************************************)
SeqUpTo(S, n) == UNION {[1..k -> S] : k \in 0..n}

AllKeys == {"layer1", "left", "top", "right"}

LenTriples(n) == {k \in (0..n) \X (0..n) \X (0..n) : k[1] + k[2] + k[3] <= n}

\* The payloads with every key whose entries are drawn from E, n at most.
FullPayloads(E, n) ==
    UNION {{[keys |-> AllKeys, left |-> l, top |-> t, right |-> r] :
                l \in [1..k[1] -> E], t \in [1..k[2] -> E], r \in [1..k[3] -> E]} :
           k \in LenTriples(n)}

\* The payload without "layer1", and p without one of the keys below it.
NoPayload == [keys |-> {}, left |-> <<>>, top |-> <<>>, right |-> <<>>]

DropKey(p, key) == [p EXCEPT !.keys = @ \ {key}, ![key] = <<>>]

\* Every payload of the model: well-formed ones, ones with a malformed
\* entry, and ones that lack a key.
Payloads ==
    FullPayloads(Entries, MaxZones)
        \cup {DropKey(p, key) : p \in FullPayloads(Entries, MaxZones), key \in {"left", "top", "right"}}
        \cup {NoPayload}

\* A payload with every key and only three-channel entries.
IsValid(p) ==
    /\ p.keys = AllKeys
    /\ \A i \in 1..Len(p.left) : Len(p.left[i]) = 3
    /\ \A i \in 1..Len(p.top) : Len(p.top[i]) = 3
    /\ \A i \in 1..Len(p.right) : Len(p.right[i]) = 3

Reverse(s) == [i \in 1..Len(s) |-> s[Len(s) + 1 - i]]

(***************************************************************************)
(* ColorMixer.apply_tv_data.  The buffer is a record [colors, num, raised] *)
(* (raised: the call ended in an exception; colors and num are then what   *)
(* the object holds at that point).                                        *)
(***************************************************************************)
\* One "for color in ....values(): self._colors.append(Color(*color.values()))"
\* loop; countLeft is TRUE for the left loop, which also counts.
RECURSIVE AppendColors(_, _, _)
AppendColors(st, entries, countLeft) ==
    IF st.raised \/ entries = <<>> THEN st
    ELSE IF Len(Head(entries)) # 3 THEN [st EXCEPT !.raised = TRUE]
    ELSE AppendColors([colors |-> Append(st.colors, Color(Head(entries)[1], Head(entries)[2], Head(entries)[3])),
                       num |-> IF countLeft THEN st.num + 1 ELSE st.num,
                       raised |-> FALSE],
                      Tail(entries), countLeft)

\* The three loops, from the buffer st0 the method starts them with, the last
\* one over right_colors; each data["layer1"][side] lookup raises KeyError
\* when a key is absent.
ApplyFrom(st0, data, right_colors) ==
    LET Raise(st) == [st EXCEPT !.raised = TRUE]
        s1 == IF {"layer1", "left"} \subseteq data.keys
              THEN AppendColors(st0, data.left, TRUE) ELSE Raise(st0)
        s2 == IF s1.raised THEN s1
              ELSE IF {"layer1", "top"} \subseteq data.keys
              THEN AppendColors(s1, data.top, FALSE) ELSE Raise(s1)
        s3 == IF s2.raised THEN s2
              ELSE IF {"layer1", "right"} \subseteq data.keys
              THEN AppendColors(s2, right_colors, FALSE) ELSE Raise(s2)
    IN s3

\* Faulty variants of apply_tv_data: the right values are appended in payload
\* order; the left counter keeps counting from its old value.
apply_tv_data_not_reversed(cs, n, data) ==
    ApplyFrom([colors |-> <<>>, num |-> 0, raised |-> FALSE], data, data.right)

apply_tv_data_not_reset(cs, n, data) ==
    ApplyFrom([colors |-> <<>>, num |-> n, raised |-> FALSE], data, Reverse(data.right))

\* apply_tv_data(data) on a mixer holding colours cs and counter n.
apply_tv_data(cs, n, data) ==
    ApplyFrom([colors |-> <<>>, num |-> 0, raised |-> FALSE], data, Reverse(data.right))

\* ColorMixer.num_colors
num_colors(cs) == Len(cs)

(***************************************************************************)
(* ColorMixer.get_average_color.  Positions are 0-based, as in the code;   *)
(* the result is [raised, color] (raised: the call ended in an exception). *)
(***************************************************************************)
Black == Color(0, 0, 0)

Returns(c) == [raised |-> FALSE, color |-> c]

\* "valid_positions = [pos for pos in positions if 0 <= pos < len(self._colors)]"
valid_positions(cs, positions) ==
    SelectSeq(positions, LAMBDA pos : 0 <= pos /\ pos < Len(cs))

\* The accumulation loop over valid_positions, from the accumulator acc.
RECURSIVE SumColors(_, _, _)
SumColors(cs, valid, acc) ==
    IF valid = <<>> THEN acc
    ELSE SumColors(cs, Tail(valid),
                   Color(acc[1] + cs[Head(valid) + 1][1],
                         acc[2] + cs[Head(valid) + 1][2],
                         acc[3] + cs[Head(valid) + 1][3]))

\* "color.red //= n" and so on; Python's // raises ZeroDivisionError for n = 0
\* and floors otherwise, as \div does for n > 0.
FloorDivide(sum, n) ==
    IF n = 0 THEN [raised |-> TRUE, color |-> sum]
    ELSE Returns(Color(sum[1] \div n, sum[2] \div n, sum[3] \div n))

\* Faulty variants of get_average_color: the sum is divided by the number of
\* all positions; the early returns are missing; a position is counted once
\* however often it occurs.
get_average_color_all_counted(cs, positions) ==
    IF positions = <<>> THEN Returns(Black)
    ELSE IF cs = <<>> THEN Returns(Black)
    ELSE LET valid == valid_positions(cs, positions)
         IN IF valid = <<>> THEN Returns(Black)
            ELSE FloorDivide(SumColors(cs, valid, Black), Len(positions))

get_average_color_unguarded(cs, positions) ==
    LET valid == valid_positions(cs, positions)
    IN FloorDivide(SumColors(cs, valid, Black), Len(valid))

RECURSIVE Distinct(_)
Distinct(s) ==
    IF s = <<>> THEN <<>>
    ELSE LET rest == Distinct(Tail(s))
         IN IF \E i \in 1..Len(rest) : rest[i] = Head(s) THEN rest ELSE <<Head(s)>> \o rest

get_average_color_distinct(cs, positions) ==
    IF positions = <<>> THEN Returns(Black)
    ELSE IF cs = <<>> THEN Returns(Black)
    ELSE LET valid == Distinct(valid_positions(cs, positions))
         IN IF valid = <<>> THEN Returns(Black)
            ELSE FloorDivide(SumColors(cs, valid, Black), Len(valid))

get_average_color(cs, positions) ==
    IF positions = <<>> THEN Returns(Black)
    ELSE IF cs = <<>> THEN Returns(Black)
    ELSE LET valid == valid_positions(cs, positions)
         IN IF valid = <<>> THEN Returns(Black)
            ELSE FloorDivide(SumColors(cs, valid, Black), Len(valid))

\* A faulty variant of ColorsAfterAverage: the accumulator is the first valid
\* zone's Color object instead of a fresh one, so the sum is written into it.
ColorsAfterAverage_aliased(cs, positions) ==
    LET valid == valid_positions(cs, positions)
    IN IF positions = <<>> \/ cs = <<>> \/ valid = <<>> THEN cs
       ELSE [cs EXCEPT ![Head(valid) + 1] =
                FloorDivide(SumColors(cs, Tail(valid), cs[Head(valid) + 1]), Len(valid)).color]

\* self._colors after get_average_color: the method accumulates into a fresh
\* Color(0, 0, 0) and only reads self._colors.
ColorsAfterAverage(cs, positions) == cs

(***************************************************************************)
(* ColorMixer.is_all_black                                                 *)
(***************************************************************************)
\* "all(color.red <= threshold and ... for color in self._colors)"
RECURSIVE AllAtMost(_, _)
AllAtMost(cs, threshold) ==
    IF cs = <<>> THEN TRUE
    ELSE /\ Head(cs)[1] <= threshold /\ Head(cs)[2] <= threshold /\ Head(cs)[3] <= threshold
         /\ AllAtMost(Tail(cs), threshold)

\* A faulty variant of is_all_black: a channel equal to the threshold is not
\* black.
RECURSIVE AllBelow(_, _)
AllBelow(cs, threshold) ==
    IF cs = <<>> THEN TRUE
    ELSE /\ Head(cs)[1] < threshold /\ Head(cs)[2] < threshold /\ Head(cs)[3] < threshold
         /\ AllBelow(Tail(cs), threshold)

is_all_black_strict(cs, threshold) ==
    IF cs = <<>> THEN TRUE ELSE AllBelow(cs, threshold)

is_all_black(cs, threshold) ==
    IF cs = <<>> THEN TRUE ELSE AllAtMost(cs, threshold)

(***************************************************************************)
(* A ColorMixer and its caller.                                            *)
(***************************************************************************)
\* num_before: the counter when apply_tv_data was called.
NoCall == [op |-> "none", data |-> NoPayload, num_before |-> 0, positions |-> <<>>,
           threshold |-> 0, raised |-> FALSE, color |-> Black, black |-> FALSE]

\* The position lists a caller asks about: one negative position, every zone
\* of the buffer and the first position past it.
PositionLists(cs) == SeqUpTo(-1..Len(cs), MaxPositions)

\* ColorMixer.__init__
MixerInit ==
    /\ colors = <<>>
    /\ num_of_left_right_colors = -1

CallerInit ==
    /\ mpc = "idle"
    /\ call = NoCall

\* mixer.apply_tv_data(data), for any payload
Apply ==
    /\ mpc = "idle"
    /\ \E data \in Payloads :
          \E r \in {apply_tv_data(colors, num_of_left_right_colors, data)} :
              /\ colors' = r.colors
              /\ num_of_left_right_colors' = r.num
              /\ call' = [NoCall EXCEPT !.op = "apply_tv_data", !.data = data,
                                        !.num_before = num_of_left_right_colors,
                                        !.raised = r.raised]
    /\ mpc' = "returned"
    /\ UNCHANGED <<partVars, ctlVars, setupVars>>

\* mixer.get_average_color(positions), for any position list
Average ==
    /\ mpc = "idle"
    /\ \E positions \in PositionLists(colors) :
          /\ \E r \in {get_average_color(colors, positions)} :
                call' = [NoCall EXCEPT !.op = "get_average_color", !.positions = positions,
                                       !.raised = r.raised, !.color = r.color]
          /\ colors' = ColorsAfterAverage(colors, positions)
    /\ mpc' = "returned"
    /\ UNCHANGED <<num_of_left_right_colors, partVars, ctlVars, setupVars>>

\* mixer.is_all_black(threshold), for any threshold
IsAllBlack ==
    /\ mpc = "idle"
    /\ \E threshold \in Thresholds :
          call' = [NoCall EXCEPT !.op = "is_all_black", !.threshold = threshold,
                                 !.black = is_all_black(colors, threshold)]
    /\ mpc' = "returned"
    /\ UNCHANGED <<mixerVars, partVars, ctlVars, setupVars>>

\* The caller goes on with the result.
Return ==
    /\ mpc = "returned"
    /\ mpc' = "idle"
    /\ call' = NoCall
    /\ UNCHANGED <<mixerVars, partVars, ctlVars, setupVars>>

MixerNext ==
    \/ Apply
    \/ Average
    \/ IsAllBlack
    \/ Return

(***************************************************************************)
(* The default zone partition: _assign_default_positions (src/ambihue.py)  *)
(* and the reassignment of AmbiHueMain.run (src/src/main.py), which        *)
(* repeats its arithmetic on the configured lights.                        *)
(***************************************************************************)
\* Most lights, and most zones, the partition is asked for.
MaxLights == 8
MaxTotalPositions == 16

\* int(round(num / den)) for num >= 0, den > 0: Python's round() takes a tie to
\* the even neighbour.  The code rounds the float i * (N / L); for up to 13
\* lights that float product is a tie exactly when i * N / L is, so the exact
\* quotient is rounded here.
RoundHalfEven(num, den) ==
    LET q == num \div den
        r == num % den
    IN IF 2 * r < den THEN q
       ELSE IF 2 * r > den THEN q + 1
       ELSE IF q % 2 = 0 THEN q ELSE q + 1

\* list(range(start, end))
Range(start, end) == [j \in 1..(IF end > start THEN end - start ELSE 0) |-> start + j - 1]

\* A faulty variant of _assign_default_positions: chunk_size is computed with
\* integer division.
assign_default_positions_int_chunk(num_lights, total_positions) ==
    IF num_lights <= 0 THEN <<>>
    ELSE LET chunk_size == total_positions \div num_lights
         IN [k \in 1..num_lights |-> Range((k - 1) * chunk_size, k * chunk_size)]

\* _assign_default_positions(num_lights, total_positions): light i (from 0,
\* k = i + 1 here) gets range(round(i * chunk_size), round((i + 1) * chunk_size))
\* with chunk_size = total_positions / num_lights.
assign_default_positions(num_lights, total_positions) ==
    IF num_lights <= 0 THEN <<>>
    ELSE [k \in 1..num_lights |->
            Range(RoundHalfEven((k - 1) * total_positions, num_lights),
                  RoundHalfEven(k * total_positions, num_lights))]

\* A faulty variant of ReassignPositions: every chunk ends one zone later.
ReassignPositions_one_more(lights, num_zones) ==
    [k \in 1..Len(lights) |->
        [lights[k] EXCEPT !.positions =
            Range(RoundHalfEven((k - 1) * num_zones, Len(lights)),
                  RoundHalfEven(k * num_zones, Len(lights)) + 1)]]

\* The "if has_out_of_range:" branch of AmbiHueMain.run: every light of
\* light_setup, in its order, gets the positions of its chunk of num_zones.
ReassignPositions(lights, num_zones) ==
    [k \in 1..Len(lights) |->
        [lights[k] EXCEPT !.positions =
            Range(RoundHalfEven((k - 1) * num_zones, Len(lights)),
                  RoundHalfEven(k * num_zones, Len(lights)))]]

\* A light_setup of n lights that have no positions yet.
UnassignedLights(n) == [k \in 1..n |-> [name |-> k, id |-> k - 1, positions |-> <<>>]]

NoPartition == [num_lights |-> 0, total_positions |-> 0, positions |-> <<>>, light_setup |-> <<>>]

PartInit == partCall = NoPartition

\* _assign_default_positions(num_lights, total_positions), and the
\* reassignment of num_lights configured lights to total_positions zones.
AssignDefaultPositions(num_lights, total_positions) ==
    /\ partCall' = [num_lights |-> num_lights,
                 total_positions |-> total_positions,
                 positions |-> assign_default_positions(num_lights, total_positions),
                 light_setup |-> ReassignPositions(UnassignedLights(num_lights), total_positions)]
    /\ UNCHANGED <<mixerVars, callerVars, ctlVars, setupVars>>

PartitionNext ==
    \E num_lights \in 0..MaxLights : \E total_positions \in 0..MaxTotalPositions :
        AssignDefaultPositions(num_lights, total_positions)

(***************************************************************************)
(* AmbiHueMain (src/src/main.py): the controller and its polling loop.     *)
(***************************************************************************)
\* Most consecutive failed polls, and most frames between two status lines,
\* that are followed; the time at which the clock of the model stops.
MaxErrors == 3
MaxFrames == 2
MaxTime == 65

\* The exit status of the error-threshold exit, the black time after which
\* the power state is asked for, and the time between two status lines.
TvErrorExitCode == 10
PowerCheckAfterS == 5
StatusIntervalS == 60

\* The time a pass of the loop takes, in whole seconds: the clock shows the
\* same second, the grace period has passed, the status interval has passed.
Delays == {0, 5, 60}

\* Configured values of runtime_error_threshold and black_screen_timeout_s.
ErrorThresholds == {0, 2}
BlackScreenTimeouts == {0, 10}

Light(name, id, positions) == [name |-> name, id |-> id, positions |-> positions]

\* Configured lights: two lights over four zones, and two lights of which one
\* names a zone that a four-zone device does not have.
LightSetups ==
    {<<Light("A", 0, <<0, 1>>), Light("B", 1, <<2, 3>>)>>,
     <<Light("A", 3, <<0>>), Light("B", 7, <<1, 5>>)>>}

\* What the device answers a poll with: no answer (httpx.RequestError), a
\* body that is not JSON, JSON that is not an object, or an object.
Response(kind, data) == [kind |-> kind, data |-> data]

Frame(l, t, r) == [keys |-> AllKeys, left |-> l, top |-> t, right |-> r]

LiveFrames ==
    {Frame(<<ColorA>>, <<ColorB, ColorA>>, <<ColorB>>), Frame(<<ColorB>>, <<>>, <<ColorA>>)}

BlackFrames == {Frame(<<ColorA>>, <<ColorA, ColorA>>, <<ColorA>>)}

\* Objects that are no frame: no zone at all, and a key missing.
BrokenFrames ==
    {Frame(<<>>, <<>>, <<>>), DropKey(Frame(<<ColorA>>, <<ColorB>>, <<ColorB>>), "top"), NoPayload}

\* The labels a power-state probe answers with ("" stands for None).
PowerStateLabels == {"On", "Standby", ""}

\* The outcomes of self._tv.get_powerstate(): AmbilightTV defines no such
\* method, so the call raises AttributeError; the labels stand for a probe
\* that answers.
PowerStates == {"AttributeError"} \cup PowerStateLabels

\* The trace of a pass of the loop: the answer to the poll, whether the screen
\* was found to have gone black ("pausing light updates"), whether the power
\* state was asked for and the outcome, whether a session was started or
\* stopped, whether the positions were checked against the zone count, and the
\* (id, rgb) handed to set_color, in order.  streak counts the polls in a row
\* up to this one that did not deliver a JSON object, before (kept for a poll
\* that did) those up to the one before.  rate is the refresh rate slept for
\* ("idle" or "active"), status the status line written ("streaming", "black",
\* "idle", or "" for none), log the connectivity message written ("lost",
\* "restored", or "" for none).
NoTick == [poll |-> "none", data |-> NoPayload, paused |-> FALSE,
           asked |-> FALSE, answer |-> "",
           started |-> FALSE, stopped |-> FALSE, checked |-> FALSE,
           forwarded |-> <<>>, interrupted |-> "no", streak |-> 0, before |-> 0,
           rate |-> "", status |-> "", log |-> ""]

\* The fields of the controller and of its mixer, as one record.
CtlState ==
    [runtime_error_threshold |-> runtime_error_threshold,
     black_screen_timeout_s |-> black_screen_timeout_s,
     light_setup |-> light_setup,
     tv_error_cnt |-> tv_error_cnt,
     tv_is_online |-> tv_is_online,
     tv_has_content |-> tv_has_content,
     hue |-> hue,
     black_since |-> black_since,
     frame_count |-> frame_count,
     last_status_time |-> last_status_time,
     colors |-> colors,
     num |-> num_of_left_right_colors,
     pc |-> pc,
     exit_code |-> exit_code,
     now |-> now,
     tick |-> tick]

\* AmbiHueMain._exit(exit_code): "del self._hue" ends the session if there is
\* one, sys.exit ends the process.
Exit(s, code) ==
    [s EXCEPT !.hue = "None", !.tick.stopped = (@ \/ s.hue # "None"),
              !.pc = "exited", !.exit_code = code]

\* An exception nobody catches ends the process with a traceback (status 1).
Crash(s) == [s EXCEPT !.pc = "crashed", !.exit_code = 1]

\* AmbilightTV.get_ambilight_json: the exception it raises ("none": it
\* returns data).
get_ambilight_json(resp) ==
    CASE resp.kind = "RequestError" -> [raised |-> "RuntimeError", data |-> NoPayload]
      [] resp.kind = "NotJson" -> [raised |-> "JSONDecodeError", data |-> NoPayload]
      [] resp.kind = "NotObject" -> [raised |-> "AssertionError", data |-> NoPayload]
      [] OTHER -> [raised |-> "none", data |-> resp.data]

\* A faulty variant of read_tv: the process exits when the counter reaches the
\* threshold.
read_tv_at_threshold(s, resp) ==
    LET r == get_ambilight_json(resp)
    IN IF r.raised = "none"
       THEN [s |-> [s EXCEPT !.tv_is_online = TRUE, !.tv_error_cnt = 0,
                             !.tick.log = IF s.tv_is_online THEN "" ELSE "restored"],
             tv_data |-> <<r.data>>]
       ELSE IF r.raised \in {"JSONDecodeError", "RuntimeError"}
       THEN LET s1 == [s EXCEPT !.tv_error_cnt = @ + 1, !.tv_is_online = FALSE,
                                !.tick.log = IF s.tv_is_online THEN "lost" ELSE ""]
            IN [s |-> IF /\ s1.runtime_error_threshold > 0
                         /\ s1.tv_error_cnt >= s1.runtime_error_threshold
                      THEN Exit(s1, TvErrorExitCode) ELSE s1,
                tv_data |-> <<>>]
       ELSE [s |-> Crash(s), tv_data |-> <<>>]

\* A faulty variant of read_tv: a successful read leaves the counter alone.
read_tv_no_reset(s, resp) ==
    LET r == get_ambilight_json(resp)
    IN IF r.raised = "none"
       THEN [s |-> [s EXCEPT !.tv_is_online = TRUE,
                             !.tick.log = IF s.tv_is_online THEN "" ELSE "restored"],
             tv_data |-> <<r.data>>]
       ELSE IF r.raised \in {"JSONDecodeError", "RuntimeError"}
       THEN LET s1 == [s EXCEPT !.tv_error_cnt = @ + 1, !.tv_is_online = FALSE,
                                !.tick.log = IF s.tv_is_online THEN "lost" ELSE ""]
            IN [s |-> IF /\ s1.runtime_error_threshold > 0
                         /\ s1.tv_error_cnt > s1.runtime_error_threshold
                      THEN Exit(s1, TvErrorExitCode) ELSE s1,
                tv_data |-> <<>>]
       ELSE [s |-> Crash(s), tv_data |-> <<>>]

\* A faulty variant of read_tv: every failure is reported as a lost connection.
read_tv_logs_every_failure(s, resp) ==
    LET r == get_ambilight_json(resp)
    IN IF r.raised = "none"
       THEN [s |-> [s EXCEPT !.tv_is_online = TRUE, !.tv_error_cnt = 0,
                             !.tick.log = IF s.tv_is_online THEN "" ELSE "restored"],
             tv_data |-> <<r.data>>]
       ELSE IF r.raised \in {"JSONDecodeError", "RuntimeError"}
       THEN LET s1 == [s EXCEPT !.tv_error_cnt = @ + 1, !.tv_is_online = FALSE,
                                !.tick.log = "lost"]
            IN [s |-> IF /\ s1.runtime_error_threshold > 0
                         /\ s1.tv_error_cnt > s1.runtime_error_threshold
                      THEN Exit(s1, TvErrorExitCode) ELSE s1,
                tv_data |-> <<>>]
       ELSE [s |-> Crash(s), tv_data |-> <<>>]

\* A faulty variant of read_tv: a failure ends the session.
read_tv_drops_session(s, resp) ==
    LET r == get_ambilight_json(resp)
    IN IF r.raised = "none"
       THEN [s |-> [s EXCEPT !.tv_is_online = TRUE, !.tv_error_cnt = 0,
                             !.tick.log = IF s.tv_is_online THEN "" ELSE "restored"],
             tv_data |-> <<r.data>>]
       ELSE IF r.raised \in {"JSONDecodeError", "RuntimeError"}
       THEN LET s1 == [s EXCEPT !.tv_error_cnt = @ + 1, !.tv_is_online = FALSE,
                                !.hue = "None",
                                !.tick.log = IF s.tv_is_online THEN "lost" ELSE ""]
            IN [s |-> IF /\ s1.runtime_error_threshold > 0
                         /\ s1.tv_error_cnt > s1.runtime_error_threshold
                      THEN Exit(s1, TvErrorExitCode) ELSE s1,
                tv_data |-> <<>>]
       ELSE [s |-> Crash(s), tv_data |-> <<>>]

\* AmbiHueMain._read_tv: the controller afterwards, and the data returned
\* (<<>> for None).
read_tv(s, resp) ==
    LET r == get_ambilight_json(resp)
    IN IF r.raised = "none"
       THEN [s |-> [s EXCEPT !.tv_is_online = TRUE, !.tv_error_cnt = 0,
                             !.tick.log = IF s.tv_is_online THEN "" ELSE "restored"],
             tv_data |-> <<r.data>>]
       ELSE IF r.raised \in {"JSONDecodeError", "RuntimeError"}
       THEN LET s1 == [s EXCEPT !.tv_error_cnt = @ + 1, !.tv_is_online = FALSE,
                                !.tick.log = IF s.tv_is_online THEN "lost" ELSE ""]
            IN [s |-> IF /\ s1.runtime_error_threshold > 0
                         /\ s1.tv_error_cnt > s1.runtime_error_threshold
                      THEN Exit(s1, TvErrorExitCode) ELSE s1,
                tv_data |-> <<>>]
       ELSE [s |-> Crash(s), tv_data |-> <<>>]

\* The line _log_status writes once the interval has passed.
status_line(s) ==
    IF s.tv_has_content /\ s.frame_count > 0 THEN "streaming"
    ELSE IF s.hue # "None" THEN "black"
    ELSE "idle"

\* AmbiHueMain._log_status
log_status(s) ==
    IF s.now - s.last_status_time < StatusIntervalS THEN s
    ELSE [s EXCEPT !.tick.status = status_line(s), !.frame_count = 0,
                   !.last_status_time = s.now]

\* "del self._hue; self._hue = None; self._black_since = None"
StopSession(s) == [s EXCEPT !.hue = "None", !.black_since = <<>>, !.tick.stopped = TRUE]

\* A faulty variant of TearDownIfDue: the teardown does not ask for a session.
TearDownIfDue_without_session(s1, powerstate) ==
    IF s1.black_since # <<>>
    THEN LET black_duration == s1.now - s1.black_since[1]
             s2 == IF black_duration >= PowerCheckAfterS
                   THEN [s1 EXCEPT !.tick.asked = TRUE, !.tick.answer = powerstate]
                   ELSE s1
         IN IF s2.tick.asked /\ powerstate = "AttributeError"
            THEN Crash(s2)
            ELSE IF s2.tick.asked /\ powerstate # "" /\ powerstate # "On"
            THEN StopSession(s2)
            ELSE IF black_duration >= s2.black_screen_timeout_s
            THEN StopSession(s2)
            ELSE s2
    ELSE s1

\* The black branch from a controller s1 that has noted the transition:
\* "if self._hue is not None and self._black_since is not None: ..."
TearDownIfDue(s1, powerstate) ==
    IF s1.hue # "None" /\ s1.black_since # <<>>
    THEN LET black_duration == s1.now - s1.black_since[1]
             s2 == IF black_duration >= PowerCheckAfterS
                   THEN [s1 EXCEPT !.tick.asked = TRUE, !.tick.answer = powerstate]
                   ELSE s1
         IN IF s2.tick.asked /\ powerstate = "AttributeError"
            THEN Crash(s2)
            ELSE IF s2.tick.asked /\ powerstate # "" /\ powerstate # "On"
            THEN StopSession(s2)
            ELSE IF black_duration >= s2.black_screen_timeout_s
            THEN StopSession(s2)
            ELSE s2
    ELSE s1

\* A faulty variant of BlackFrame: every black frame sets black_since.
BlackFrame_restamps(s, powerstate) ==
    TearDownIfDue([s EXCEPT !.tv_has_content = FALSE, !.black_since = <<s.now>>,
                            !.tick.paused = s.tv_has_content],
                  powerstate)

\* The "if is_black:" branch of run, up to its continue.
BlackFrame(s, powerstate) ==
    TearDownIfDue(IF s.tv_has_content
                  THEN [s EXCEPT !.tv_has_content = FALSE, !.black_since = <<s.now>>,
                                 !.tick.paused = TRUE]
                  ELSE s,
                  powerstate)

\* The "if self._hue is None:" branch of run: the positions are checked against
\* the zone count, and a session is started.
StartSession(s) ==
    LET num_zones == num_colors(s.colors)
        has_out_of_range ==
            \E k \in 1..Len(s.light_setup) :
                \E j \in 1..Len(s.light_setup[k].positions) :
                    s.light_setup[k].positions[j] >= num_zones
    IN [s EXCEPT !.light_setup = IF has_out_of_range
                                 THEN ReassignPositions(s.light_setup, num_zones)
                                 ELSE s.light_setup,
                 !.hue = "Active",
                 !.tick.checked = TRUE,
                 !.tick.started = TRUE]

\* A faulty variant of ForwardedColors: only the first position of a light counts.
ForwardedColors_first_position(s) ==
    [k \in 1..Len(s.light_setup) |->
        <<s.light_setup[k].id,
          get_average_color(s.colors, SubSeq(s.light_setup[k].positions, 1, 1)).color>>]

\* What the loop over light_setup hands to set_color: (id, colour) per light.
ForwardedColors(s) ==
    [k \in 1..Len(s.light_setup) |->
        <<s.light_setup[k].id, get_average_color(s.colors, s.light_setup[k].positions).color>>]

\* A faulty variant of LiveFrame: every frame with content starts a session.
LiveFrame_restarts(s) ==
    LET s1 == [s EXCEPT !.tv_has_content = TRUE, !.black_since = <<>>]
        s2 == StartSession(s1)
    IN [s2 EXCEPT !.tick.forwarded = ForwardedColors(s2), !.frame_count = @ + 1]

\* A faulty variant of LiveFrame: black_since survives a frame with content.
LiveFrame_keeps_black_since(s) ==
    LET s1 == [s EXCEPT !.tv_has_content = TRUE]
        s2 == IF s1.hue = "None" THEN StartSession(s1) ELSE s1
    IN [s2 EXCEPT !.tick.forwarded = ForwardedColors(s2), !.frame_count = @ + 1]

\* The rest of run's loop body for a frame with content.
LiveFrame(s) ==
    LET s1 == [s EXCEPT !.tv_has_content = TRUE, !.black_since = <<>>]
        s2 == IF s1.hue = "None" THEN StartSession(s1) ELSE s1
    IN [s2 EXCEPT !.tick.forwarded = ForwardedColors(s2), !.frame_count = @ + 1]

\* A faulty variant of current_refresh_rate: only the session counts.
current_refresh_rate_session_only(s) == IF s.hue = "None" THEN "idle" ELSE "active"

\* The refresh rate the loop sleeps for at the head of a pass.
current_refresh_rate(s) ==
    IF s.hue = "None" \/ ~s.tv_has_content THEN "idle" ELSE "active"

\* One pass of the "while True" loop of run: the sleep (delay seconds pass),
\* _log_status, _read_tv, and what follows for the data read.
RunLoopBody(s0, delay, resp, powerstate) ==
    LET streak == IF resp.kind = "Object" THEN 0 ELSE s0.tick.streak + 1
        s1 == log_status([s0 EXCEPT !.now = @ + delay,
                                    !.tick = [NoTick EXCEPT !.poll = resp.kind,
                                                            !.data = resp.data,
                                                            !.rate = current_refresh_rate(s0),
                                                            !.streak = streak,
                                                            !.before = IF resp.kind = "Object"
                                                                       THEN s0.tick.streak
                                                                       ELSE 0]])
        r == read_tv(s1, resp)
        s2 == r.s
    IN IF s2.pc # "running" \/ r.tv_data = <<>> THEN s2
       ELSE LET a == apply_tv_data(s2.colors, s2.num, r.tv_data[1])
                s3 == [s2 EXCEPT !.colors = a.colors, !.num = a.num]
            IN IF a.raised THEN Crash(s3)
               ELSE IF s3.colors = <<>> THEN Crash(s3)
               ELSE IF is_all_black(s3.colors, DefaultThreshold) THEN BlackFrame(s3, powerstate)
               ELSE LiveFrame(s3)

\* AmbiHueMain.__init__ with the given configuration, and the start of run.
CtlInitWith(threshold, timeout, lights) ==
    /\ runtime_error_threshold = threshold
    /\ black_screen_timeout_s = timeout
    /\ light_setup = lights
    /\ tv_error_cnt = 0
    /\ tv_is_online = TRUE
    /\ tv_has_content = TRUE
    /\ hue = "None"
    /\ black_since = <<>>
    /\ frame_count = 0
    /\ last_status_time = 0
    /\ pc = "running"
    /\ exit_code = 0
    /\ now = 0
    /\ tick = NoTick

CtlInit ==
    \E threshold \in ErrorThresholds : \E timeout \in BlackScreenTimeouts :
        \E lights \in LightSetups : CtlInitWith(threshold, timeout, lights)

\* A controller that is not part of the specification at hand.
CtlIdle == CtlInitWith(0, 0, <<>>)

\* The controller becomes s, within the bounds of the counters.
Becomes(s) ==
    /\ s.tv_error_cnt <= MaxErrors
    /\ s.frame_count <= MaxFrames
    /\ light_setup' = s.light_setup
    /\ tv_error_cnt' = s.tv_error_cnt
    /\ tv_is_online' = s.tv_is_online
    /\ tv_has_content' = s.tv_has_content
    /\ hue' = s.hue
    /\ black_since' = s.black_since
    /\ frame_count' = s.frame_count
    /\ last_status_time' = s.last_status_time
    /\ colors' = s.colors
    /\ num_of_left_right_colors' = s.num
    /\ pc' = s.pc
    /\ exit_code' = s.exit_code
    /\ now' = s.now
    /\ tick' = s.tick
    /\ UNCHANGED <<runtime_error_threshold, black_screen_timeout_s, callerVars, partVars,
                   setupVars>>

\* One pass of the loop, for a poll answered with resp after delay seconds.
Tick(delay, resp, powerstate) ==
    /\ now + delay <= MaxTime
    /\ \E s \in {RunLoopBody(CtlState, delay, resp, powerstate)} : Becomes(s)

\* The device does not answer, or answers with something that is not JSON.
TickPollFails ==
    /\ pc = "running"
    /\ \E delay \in Delays : \E kind \in {"RequestError", "NotJson"} :
        Tick(delay, Response(kind, NoPayload), "")

\* The device answers with JSON that is not an object.
TickNotObject ==
    /\ pc = "running"
    /\ \E delay \in Delays : Tick(delay, Response("NotObject", NoPayload), "")

\* The device answers with an object that is no frame.
TickBrokenFrame ==
    /\ pc = "running"
    /\ \E delay \in Delays : \E data \in BrokenFrames : Tick(delay, Response("Object", data), "")

\* The device answers with a black frame.
TickBlackFrame ==
    /\ pc = "running"
    /\ \E delay \in Delays : \E data \in BlackFrames : \E powerstate \in PowerStates :
        Tick(delay, Response("Object", data), powerstate)

\* The device answers with a frame that has content.
TickLiveFrame ==
    /\ pc = "running"
    /\ \E delay \in Delays : \E data \in LiveFrames : Tick(delay, Response("Object", data), "")

\* _signal_handler, run by the interpreter in the main thread wherever that
\* thread is (at `point`): sys.exit(0) raises SystemExit there, nothing on the
\* way up catches it and _exit is not called.  The session ends only if the
\* HueEntertainmentGroupKit object is finalized (__del__) while the
\* interpreter shuts down, which the language does not promise.
Interrupt(s, point, finalized) ==
    LET s1 == [s EXCEPT !.tick.interrupted = point, !.pc = "exited", !.exit_code = 0]
    IN IF finalized /\ s.hue = "Active"
       THEN [s1 EXCEPT !.hue = "None", !.tick.stopped = TRUE]
       ELSE s1

\* Whether __del__ runs matters only for a controller that holds a session.
Finalizations(s) == IF s.hue = "Active" THEN BOOLEAN ELSE {FALSE}

\* The pass that has not polled yet: what the last poll left is still there.
Unpolled(s) ==
    [s EXCEPT !.tick = [NoTick EXCEPT !.streak = s.tick.streak,
                                      !.rate = current_refresh_rate(s)]]

\* SIGINT while the loop sleeps.
SigintInSleep ==
    /\ pc = "running"
    /\ \E finalized \in Finalizations(CtlState) :
          Becomes(Interrupt(Unpolled(CtlState), "sleep", finalized))

\* SIGINT while _read_tv waits for the device: the sleep and _log_status of
\* this pass are done.
SigintInPoll ==
    /\ pc = "running"
    /\ \E delay \in Delays :
          /\ now + delay <= MaxTime
          /\ \E s \in {log_status([Unpolled(CtlState) EXCEPT !.now = @ + delay])} :
                \E finalized \in Finalizations(s) :
                    Becomes(Interrupt(s, "read_tv", finalized))

\* SIGINT in the loop over light_setup, after `done` of the set_color calls:
\* the pass is that of a frame with content without the remaining calls and
\* without the frame count.
SigintInForwarding ==
    /\ pc = "running"
    /\ \E delay \in Delays : \E data \in LiveFrames :
          /\ now + delay <= MaxTime
          /\ \E s \in {RunLoopBody(CtlState, delay, Response("Object", data), "")} :
                \E done \in 0..(Len(s.tick.forwarded) - 1) :
                    \E finalized \in Finalizations(s) :
                        Becomes(Interrupt([s EXCEPT !.tick.forwarded = SubSeq(@, 1, done),
                                                    !.frame_count = @ - 1],
                                          "set_color", finalized))

Next ==
    \/ TickPollFails
    \/ TickNotObject
    \/ TickBrokenFrame
    \/ TickBlackFrame
    \/ TickLiveFrame
    \/ SigintInSleep
    \/ SigintInPoll
    \/ SigintInForwarding

(***************************************************************************)
(* The loop followed over two status intervals: passes that take no time   *)
(* or a whole interval.                                                    *)
(***************************************************************************)
\* The time at which the clock stops when status lines are followed.
MaxStatusTime == 120

StatusDelays == {0, StatusIntervalS}

\* One pass of the loop, as Tick, up to MaxStatusTime.
LongTick(delay, resp, powerstate) ==
    /\ now + delay <= MaxStatusTime
    /\ \E s \in {RunLoopBody(CtlState, delay, resp, powerstate)} : Becomes(s)

\* The device does not answer.
StatusPollFails ==
    /\ pc = "running"
    /\ \E delay \in StatusDelays : LongTick(delay, Response("RequestError", NoPayload), "")

\* The device answers with a black frame.
StatusBlackFrame ==
    /\ pc = "running"
    /\ \E delay \in StatusDelays : \E data \in BlackFrames : \E powerstate \in PowerStates :
        LongTick(delay, Response("Object", data), powerstate)

\* The device answers with a frame that has content.
StatusLiveFrame ==
    /\ pc = "running"
    /\ \E delay \in StatusDelays : \E data \in LiveFrames :
        LongTick(delay, Response("Object", data), "")

StatusNext ==
    \/ StatusPollFails
    \/ StatusBlackFrame
    \/ StatusLiveFrame

(***************************************************************************)
(* The loop in front of devices with few zones: sessions that start with   *)
(* positions the device does not have.                                     *)
(***************************************************************************)
\* Configured lights: those of LightSetups, and three lights of which one
\* names a zone that a device with one, two or three zones does not have.
ReassignSetups ==
    LightSetups \cup {<<Light("A", 2, <<0>>), Light("B", 0, <<1>>), Light("C", 1, <<4>>)>>}

\* Frames with content of one, two and three zones.
NarrowFrames ==
    {Frame(<<ColorB>>, <<>>, <<>>), Frame(<<ColorB>>, <<>>, <<ColorA>>),
     Frame(<<ColorA>>, <<ColorB>>, <<ColorB>>)}

\* No error threshold; a session is torn down by the first black frame.
ReassignInit == \E lights \in ReassignSetups : CtlInitWith(0, 0, lights)

\* The device answers with a frame that has content.
NarrowLiveFrame ==
    /\ pc = "running"
    /\ \E delay \in Delays : \E data \in NarrowFrames : Tick(delay, Response("Object", data), "")

\* The device answers with a black frame.
NarrowBlackFrame ==
    /\ pc = "running"
    /\ \E delay \in Delays : \E data \in BlackFrames : \E powerstate \in PowerStates :
        Tick(delay, Response("Object", data), powerstate)

ReassignNext ==
    \/ NarrowLiveFrame
    \/ NarrowBlackFrame

(***************************************************************************)
(* The pairing handshake (src/src/tv_discovery.py) and the state file that *)
(* it shares with the setup (src/ambihue.py).                              *)
(***************************************************************************)
\* The restarts of the program that are followed.
MaxRuns == 1

\* Text is a sequence of digits.  A JSON scalar is a number or a text.
JInt(n) == [t |-> "int", n |-> n, s |-> <<>>]
JStr(s) == [t |-> "str", n |-> 0, s |-> s]

RECURSIVE Digits(_)
Digits(n) == IF n < 10 THEN <<n>> ELSE Digits(n \div 10) \o <<n % 10>>

\* Python's str() and truth value of a scalar.
str(v) == IF v.t = "int" THEN Digits(v.n) ELSE v.s
Truthy(v) == IF v.t = "int" THEN v.n # 0 ELSE v.s # <<>>

\* token_hex(16)
DeviceIds == {"d1", "d2"}

\* What the device answers pair/request with: an error, or an object of which
\* auth_key and timestamp are read ("" is result.get's default for a key that
\* is missing; a timestamp is a number or a text).
RequestFails == [ok |-> FALSE, auth_key |-> "", timestamp |-> JStr(<<>>)]
RequestAnswers ==
    {RequestFails,
     [ok |-> TRUE, auth_key |-> "", timestamp |-> JInt(12)],
     [ok |-> TRUE, auth_key |-> "k1", timestamp |-> JInt(12)],
     [ok |-> TRUE, auth_key |-> "k2", timestamp |-> JStr(<<1>>)]}

\* The PIN of the configuration and the PIN typed on stdin ("" for none).
NoPin == JStr(<<>>)
Pins == {NoPin, JStr(<<3>>), JStr(<<2, 3>>)}
EnteredPins == {NoPin, JStr(<<3>>)}

\* What the device answers pair/grant with.
GrantAnswers == {"200", "401", "500", "ConnectError"}

\* The other keys of the state file, as written by _save_state.
Configs == {1, 2}

\* PhilipsTVPairing._SHARED_KEY
SharedKey == "_SHARED_KEY"

\* The messages of the RuntimeErrors of grant_pairing and request_pin_display.
InvalidPinMessage == "Invalid PIN code or expired auth key"
GrantFailedMessage == "TV pairing grant failed"
RequestFailedMessage == "TV pairing request failed"

\* The return value that asks the caller for a PIN.
PinRequired == <<"__PIN_REQUIRED__", "">>

\* hmac: the key and the bytes fed by update so far; the digest of a message
\* stands for itself.
hmac_new(key) == [key |-> key, msg |-> <<>>]
hmac_update(h, bytes) == [h EXCEPT !.msg = @ \o bytes]
hmac_digest(h) == <<"HMAC-SHA1", h.key, h.msg>>

\* A faulty variant of _hmac_signature: a delimiter between timestamp and PIN.
hmac_signature_delimited(key, timestamp, pin) ==
    hmac_digest(hmac_update(hmac_update(hmac_update(hmac_new(key), str(timestamp)), <<0>>),
                            str(pin)))

\* PhilipsTVPairing._hmac_signature
hmac_signature(key, timestamp, pin) ==
    hmac_digest(hmac_update(hmac_update(hmac_new(key), str(timestamp)), str(pin)))

\* The dict request_pin_display returns; device stands for the descriptor,
\* of which the id is the part that varies.
PairingState(auth_key, timestamp, device_id) ==
    [auth_key |-> auth_key, timestamp |-> timestamp, device |-> device_id]

\* PhilipsTVPairing.request_pin_display
request_pin_display(device_id, answer) ==
    IF answer.ok
    THEN [raised |-> "", state |-> <<PairingState(answer.auth_key, answer.timestamp, device_id)>>]
    ELSE [raised |-> RequestFailedMessage, state |-> <<>>]

\* The POST of grant_pairing: the payload and the Digest pair.
GrantRequest(pairing_state, pin) ==
    [pin |-> str(pin),
     auth_timestamp |-> pairing_state.timestamp,
     auth_signature |-> hmac_signature(SharedKey, JStr(str(pairing_state.timestamp)),
                                       JStr(str(pin))),
     device |-> pairing_state.device,
     auth_key |-> pairing_state.auth_key,
     digest |-> <<pairing_state.device, pairing_state.auth_key>>]

\* A faulty variant of grant_pairing: a 401 is reported like any other failure.
grant_pairing_one_message(pairing_state, pin, answer) ==
    IF answer = "200"
    THEN [raised |-> "", creds |-> <<pairing_state.device, pairing_state.auth_key>>]
    ELSE [raised |-> GrantFailedMessage, creds |-> <<>>]

\* PhilipsTVPairing.grant_pairing, for the device's answer to the POST.
grant_pairing(pairing_state, pin, answer) ==
    IF answer = "200"
    THEN [raised |-> "", creds |-> <<pairing_state.device, pairing_state.auth_key>>]
    ELSE IF answer = "401"
    THEN [raised |-> InvalidPinMessage, creds |-> <<>>]
    ELSE [raised |-> GrantFailedMessage, creds |-> <<>>]

\* The state file: absent, or a JSON object with the keys of the
\* configuration (config, 0 for none) and, possibly, "tv_pairing_state".
NoFile == [exists |-> FALSE, config |-> 0, tv_pairing_state |-> <<>>]

\* _load_pairing_state: <<>> stands for {}.
load_pairing_state(file) == IF ~file.exists THEN <<>> ELSE file.tv_pairing_state

\* _save_pairing_state: the OSError of a failed write is logged, no more.
save_pairing_state(file, can_write, pairing_state) ==
    IF can_write
    THEN [exists |-> TRUE, config |-> file.config, tv_pairing_state |-> <<pairing_state>>]
    ELSE file

\* A faulty variant of _clear_pairing_state: the file is left as it is.
clear_pairing_state_noop(file, can_write) == file

\* _clear_pairing_state
clear_pairing_state(file, can_write) ==
    IF file.exists /\ can_write THEN [file EXCEPT !.tv_pairing_state = <<>>] ELSE file

\* _save_state (src/ambihue.py): the file becomes the configuration.
save_state(config) == [exists |-> TRUE, config |-> config, tv_pairing_state |-> <<>>]

\* A call of the pairing flow before it has done anything: what it is given,
\* and what it will have read, sent, written and returned.
NoPairingCall ==
    [op |-> "none", pin |-> NoPin, no_auth |-> FALSE, before |-> NoFile, file |-> NoFile,
     calls |-> <<>>, loaded |-> <<>>, used |-> <<>>, used_pin |-> NoPin, sent |-> <<>>,
     answer |-> "",
     grant_raised |-> "", requested |-> <<>>, entered |-> NoPin,
     result |-> <<>>, raised |-> ""]

PairingCall(op, pin, file) == [NoPairingCall EXCEPT !.op = op, !.pin = pin, !.before = file, !.file = file]

\* c after pairing.grant_pairing(pairing_state, pin), answered by the device.
Granted(c, pairing_state, pin, answer) ==
    [c EXCEPT !.calls = @ \o <<"grant_pairing">>,
              !.used = <<pairing_state>>,
              !.used_pin = pin,
              !.sent = <<GrantRequest(pairing_state, pin)>>,
              !.answer = answer,
              !.grant_raised = grant_pairing(pairing_state, pin, answer).raised,
              !.result = grant_pairing(pairing_state, pin, answer).creds]

\* c after _clear_pairing_state().
Cleared(c, can_write) ==
    [c EXCEPT !.calls = @ \o <<"_clear_pairing_state">>,
              !.file = clear_pairing_state(c.file, can_write)]

\* "Phase 2" of handle_tv_pairing: the grant with the saved state.
GrantWithSavedState(c, can_write, saved_state, answer) ==
    LET c1 == Granted(c, saved_state, c.pin, answer)
    IN IF c1.grant_raised = ""
       THEN Cleared(c1, can_write)
       ELSE [Cleared(c1, can_write) EXCEPT !.result = PinRequired]

\* A faulty variant of RequestPin: a request that fails is made once more.
RequestPin_retries(c, can_write, device_id, request_answer, entered_pin, answer) ==
    LET r == request_pin_display(device_id, request_answer)
        c1 == [c EXCEPT !.calls = @ \o <<"request_pin_display">>, !.requested = r.state]
    IN IF r.raised # ""
       THEN [c1 EXCEPT !.calls = @ \o <<"request_pin_display">>, !.raised = r.raised]
       ELSE LET pairing_state == r.state[1]
                c2 == IF pairing_state.auth_key # ""
                      THEN [c1 EXCEPT !.calls = @ \o <<"_save_pairing_state">>,
                                      !.file = save_pairing_state(c1.file, can_write,
                                                                  pairing_state)]
                      ELSE c1
                c3 == [c2 EXCEPT !.entered = entered_pin]
            IN IF Truthy(entered_pin) /\ pairing_state.auth_key # ""
               THEN LET c4 == Granted(c3, pairing_state, entered_pin, answer)
                    IN IF c4.grant_raised = ""
                       THEN Cleared(c4, can_write)
                       ELSE [c4 EXCEPT !.raised = c4.grant_raised]
               ELSE [c3 EXCEPT !.result = PinRequired]

\* "Phase 1" of handle_tv_pairing: the request of a PIN, and what follows.
RequestPin(c, can_write, device_id, request_answer, entered_pin, answer) ==
    LET r == request_pin_display(device_id, request_answer)
        c1 == [c EXCEPT !.calls = @ \o <<"request_pin_display">>, !.requested = r.state]
    IN IF r.raised # "" THEN [c1 EXCEPT !.raised = r.raised]
       ELSE LET pairing_state == r.state[1]
                c2 == IF pairing_state.auth_key # ""
                      THEN [c1 EXCEPT !.calls = @ \o <<"_save_pairing_state">>,
                                      !.file = save_pairing_state(c1.file, can_write,
                                                                  pairing_state)]
                      ELSE c1
                c3 == [c2 EXCEPT !.entered = entered_pin]
            IN IF Truthy(entered_pin) /\ pairing_state.auth_key # ""
               THEN LET c4 == Granted(c3, pairing_state, entered_pin, answer)
                    IN IF c4.grant_raised = ""
                       THEN Cleared(c4, can_write)
                       ELSE [c4 EXCEPT !.raised = c4.grant_raised]
               ELSE [c3 EXCEPT !.result = PinRequired]

\* A faulty variant of handle_tv_pairing: the saved state is tried before the
\* unauthenticated probe.
handle_tv_pairing_grant_first(file, can_write, pairing_pin, no_auth, device_id, request_answer, entered_pin, answer) ==
    LET c0 == PairingCall("handle_tv_pairing", pairing_pin, file)
        saved_state == IF Truthy(pairing_pin) THEN load_pairing_state(file) ELSE <<>>
        c1 == [c0 EXCEPT !.loaded = saved_state]
    IN IF Truthy(pairing_pin) /\ saved_state # <<>> /\ saved_state[1].auth_key # ""
       THEN GrantWithSavedState(c1, can_write, saved_state[1], answer)
       ELSE IF no_auth
       THEN [c1 EXCEPT !.calls = @ \o <<"try_connect_no_auth">>, !.no_auth = TRUE,
                       !.result = <<"", "">>]
       ELSE RequestPin([c1 EXCEPT !.calls = @ \o <<"try_connect_no_auth">>], can_write,
                       device_id, request_answer, entered_pin, answer)

\* A faulty variant of handle_tv_pairing: a failed grant with the saved state
\* is followed by the request of a fresh PIN.
handle_tv_pairing_retry(file, can_write, pairing_pin, no_auth, device_id, request_answer, entered_pin, answer) ==
    LET c0 == [PairingCall("handle_tv_pairing", pairing_pin, file)
                  EXCEPT !.calls = <<"try_connect_no_auth">>, !.no_auth = no_auth]
        saved_state == IF Truthy(pairing_pin) THEN load_pairing_state(file) ELSE <<>>
        c1 == [c0 EXCEPT !.loaded = saved_state]
    IN IF no_auth THEN [c0 EXCEPT !.result = <<"", "">>]
       ELSE IF Truthy(pairing_pin) /\ saved_state # <<>> /\ saved_state[1].auth_key # ""
       THEN LET c2 == GrantWithSavedState(c1, can_write, saved_state[1], answer)
            IN IF c2.grant_raised = "" THEN c2
               ELSE RequestPin(c2, can_write, device_id, request_answer, entered_pin, answer)
       ELSE RequestPin(c1, can_write, device_id, request_answer, entered_pin, answer)

\* handle_tv_pairing(tv_ip, pairing_pin), with the state file as it is found,
\* the answers of the device (to the unauthenticated probe, to pair/request,
\* to pair/grant), the device id drawn and the PIN typed on stdin.
handle_tv_pairing(file, can_write, pairing_pin, no_auth, device_id, request_answer, entered_pin, answer) ==
    LET c0 == [PairingCall("handle_tv_pairing", pairing_pin, file)
                  EXCEPT !.calls = <<"try_connect_no_auth">>, !.no_auth = no_auth]
        saved_state == IF Truthy(pairing_pin) THEN load_pairing_state(file) ELSE <<>>
        c1 == [c0 EXCEPT !.loaded = saved_state]
    IN IF no_auth THEN [c0 EXCEPT !.result = <<"", "">>]
       ELSE IF Truthy(pairing_pin) /\ saved_state # <<>> /\ saved_state[1].auth_key # ""
       THEN GrantWithSavedState(c1, can_write, saved_state[1], answer)
       ELSE RequestPin(c1, can_write, device_id, request_answer, entered_pin, answer)

\* PhilipsTVPairing.complete_pairing(pin): request_pin_display, then
\* grant_pairing; the state file is not touched.
complete_pairing(file, pin, device_id, request_answer, answer) ==
    LET r == request_pin_display(device_id, request_answer)
        c1 == [PairingCall("complete_pairing", pin, file)
                  EXCEPT !.calls = <<"request_pin_display">>, !.requested = r.state]
    IN IF r.raised # "" THEN [c1 EXCEPT !.raised = r.raised]
       ELSE LET c2 == Granted(c1, r.state[1], pin, answer)
            IN [c2 EXCEPT !.raised = c2.grant_raised]

\* The state file is there or not when the program is installed; /data is
\* writable (the add-on) or not (a standalone run without /data).
PairInit ==
    /\ writable \in BOOLEAN
    /\ state_file \in {NoFile} \cup (IF writable THEN {save_state(c) : c \in Configs} ELSE {})
    /\ ppc = "setup"
    /\ runs = 0
    /\ last_op = "none"
    /\ pcall = NoPairingCall

\* A pairing flow that is not part of the specification at hand.
PairIdle ==
    /\ writable = TRUE
    /\ state_file = NoFile
    /\ ppc = "setup"
    /\ runs = 0
    /\ last_op = "none"
    /\ pcall = NoPairingCall

\* _check_and_run_setup calls handle_tv_pairing: on the PIN-required signal
\* it exits, with credentials it goes on to persist them, and a RuntimeError
\* is logged.
HandleTvPairing(pairing_pin, no_auth, device_id, request_answer, entered_pin, answer) ==
    /\ \E c \in {handle_tv_pairing(state_file, writable, pairing_pin, no_auth, device_id,
                                   request_answer, entered_pin, answer)} :
          /\ pcall' = c
          /\ state_file' = c.file
          /\ ppc' = IF c.raised = "" /\ c.result # PinRequired /\ c.result[1] # ""
                    THEN "paired" ELSE "ended"
    /\ last_op' = "handle_tv_pairing"
    /\ UNCHANGED <<writable, runs, mixerVars, callerVars, partVars, ctlVars, waitVars>>

\* Whether a call with this PIN finds a saved state to grant with.
HasSavedState(pairing_pin) ==
    /\ Truthy(pairing_pin)
    /\ load_pairing_state(state_file) # <<>>
    /\ load_pairing_state(state_file)[1].auth_key # ""

\* The device answers the unauthenticated probe.
PairNoAuth ==
    /\ ppc = "setup"
    /\ \E pairing_pin \in Pins :
          HandleTvPairing(pairing_pin, TRUE, "d1", RequestFails, NoPin, "200")

\* A PIN is configured and a state is saved: the device is asked to grant.
PairWithSavedState ==
    /\ ppc = "setup"
    /\ \E pairing_pin \in Pins : \E answer \in GrantAnswers :
          /\ HasSavedState(pairing_pin)
          /\ HandleTvPairing(pairing_pin, FALSE, "d1", RequestFails, NoPin, answer)

\* No PIN is configured, or no state is saved: the device is asked for a
\* PIN, and no PIN is typed.
PairRequestsPin ==
    /\ ppc = "setup"
    /\ \E pairing_pin \in Pins : \E device_id \in DeviceIds :
         \E request_answer \in RequestAnswers :
            /\ ~HasSavedState(pairing_pin)
            /\ HandleTvPairing(pairing_pin, FALSE, device_id, request_answer, NoPin, "200")

\* As before, and the PIN is typed on stdin.
PairRequestsPinAndGrants ==
    /\ ppc = "setup"
    /\ \E pairing_pin \in Pins : \E device_id \in DeviceIds :
         \E request_answer \in RequestAnswers \ {RequestFails} :
           \E entered_pin \in EnteredPins \ {NoPin} :
            \E answer \in (IF request_answer.auth_key # "" THEN GrantAnswers ELSE {"200"}) :
              /\ ~HasSavedState(pairing_pin)
              /\ HandleTvPairing(pairing_pin, FALSE, device_id, request_answer, entered_pin,
                                 answer)

\* A caller of complete_pairing.
CompletePairing ==
    /\ ppc = "setup"
    /\ \E pin \in Pins : \E device_id \in DeviceIds :
         \E request_answer \in RequestAnswers :
           \E answer \in (IF request_answer.ok THEN GrantAnswers ELSE {"200"}) :
             \E c \in {complete_pairing(state_file, pin, device_id, request_answer, answer)} :
                /\ pcall' = c
                /\ ppc' = IF c.raised = "" THEN "paired" ELSE "ended"
    /\ last_op' = "complete_pairing"
    /\ UNCHANGED <<state_file, writable, runs, mixerVars, callerVars, partVars, ctlVars,
                   waitVars>>

\* A step of _check_and_run_setup that persists the configuration through
\* _save_state: after _fix_empty_positions or through _persist_config before
\* the pairing, or through _persist_config with the credentials after it.
SaveState ==
    /\ ppc \in {"setup", "paired"}
    /\ writable
    /\ \E config \in Configs : state_file' = save_state(config)
    /\ ppc' = IF ppc = "paired" THEN "ended" ELSE ppc
    /\ last_op' = "_save_state"
    /\ UNCHANGED <<writable, runs, pcall, mixerVars, callerVars, partVars, ctlVars, waitVars>>

\* The process has ended and is started again.
Restart ==
    /\ ppc \in {"paired", "ended"}
    /\ runs < MaxRuns
    /\ ppc' = "setup"
    /\ runs' = runs + 1
    /\ last_op' = "restart"
    /\ UNCHANGED <<state_file, writable, pcall, mixerVars, callerVars, partVars, ctlVars,
                   waitVars>>

PairingNext ==
    \/ PairNoAuth
    \/ PairWithSavedState
    \/ PairRequestsPin
    \/ PairRequestsPinAndGrants
    \/ CompletePairing
    \/ SaveState
    \/ Restart

(***************************************************************************)
(* The startup wait (AmbilightTV.wait_for_startup).  A step is a pass of   *)
(* the loop that is waiting: one ping, and the sleep after a failed one.   *)
(***************************************************************************)
\* The probes of an unbounded wait that are followed.
MaxProbes == 12

\* Configured values of wait_for_startup_s (29 is the default).
StartupWaits == {0, 1, 2, 3, 5, 6, 9, 12, 15, 29, 30}

\* The answers of ping: the exit status is 0 or not.
PingAnswers == BOOLEAN

\* A faulty variant of settle_sleep: every device is given the time to boot.
settle_sleep_always(offline) == <<"power_on_time_s">>

\* What a wait sleeps once the device answers: time.sleep(self.power_on_time_s)
\* if a probe has failed before, nothing otherwise.
settle_sleep(offline) == IF offline THEN <<"power_on_time_s">> ELSE <<>>

WaitInit ==
    /\ wait_for_startup_s \in StartupWaits
    /\ wpc = "waiting"
    /\ cnt = 0
    /\ probes = <<>>
    /\ was_offline = FALSE
    /\ sleeps = <<>>

\* A wait that is not part of the specification at hand.
WaitIdle ==
    /\ wait_for_startup_s = 0
    /\ wpc = "waiting"
    /\ cnt = 0
    /\ probes = <<>>
    /\ was_offline = FALSE
    /\ sleeps = <<>>

\* A pass of the "while True" loop of _wait_indefinitely.
WaitIndefinitely ==
    /\ wpc = "waiting"
    /\ wait_for_startup_s = 0
    /\ cnt < MaxProbes
    /\ \E response \in PingAnswers :
         /\ probes' = Append(probes, response)
         /\ wpc' = IF response THEN "returned" ELSE "waiting"
         /\ cnt' = IF response THEN cnt ELSE cnt + 1
         /\ was_offline' = (was_offline \/ ~response)
         /\ sleeps' = sleeps \o (IF response THEN settle_sleep(was_offline) ELSE <<"retry">>)
    /\ UNCHANGED <<wait_for_startup_s, mixerVars, callerVars, partVars, ctlVars, pairVars>>

\* A pass of the "for cnt in range(int(self._wait_for_startup_s / 3))" loop
\* of _wait_with_timeout.
WaitWithTimeout ==
    /\ wpc = "waiting"
    /\ wait_for_startup_s # 0
    /\ cnt < wait_for_startup_s \div 3
    /\ \E response \in PingAnswers :
         /\ probes' = Append(probes, response)
         /\ wpc' = IF response THEN "returned" ELSE "waiting"
         /\ cnt' = IF response THEN cnt ELSE cnt + 1
         /\ was_offline' = (was_offline \/ ~response)
         /\ sleeps' = sleeps \o (IF response THEN settle_sleep(was_offline) ELSE <<"retry">>)
    /\ UNCHANGED <<wait_for_startup_s, mixerVars, callerVars, partVars, ctlVars, pairVars>>

\* The range of _wait_with_timeout is used up: RuntimeError.
WaitTimesOut ==
    /\ wpc = "waiting"
    /\ wait_for_startup_s # 0
    /\ cnt >= wait_for_startup_s \div 3
    /\ wpc' = "raised"
    /\ UNCHANGED <<wait_for_startup_s, cnt, probes, was_offline, sleeps, mixerVars, callerVars,
                   partVars, ctlVars, pairVars>>

StartupNext ==
    \/ WaitIndefinitely
    \/ WaitWithTimeout
    \/ WaitTimesOut

(***************************************************************************)
(* Properties of the zone buffer and of the colour averaging, checked      *)
(* under SpecMixer.                                                        *)
(***************************************************************************)
Returned(op) == mpc = "returned" /\ call.op = op

\* C1: an apply_tv_data call with a payload that lacks a key or holds an entry
\* that is not a three-channel object fails, and leaves the colours and the
\* left counter of the buffer applied before as they were before the call.
C1_FailedApplyKeepsBuffer ==
    [][(/\ colors # <<>>
        /\ mpc' = "returned" /\ call'.op = "apply_tv_data" /\ ~IsValid(call'.data))
          => /\ call'.raised
             /\ colors' = colors
             /\ num_of_left_right_colors' = num_of_left_right_colors]_vars

\* The scenario of the design: left a, top b c, right d.
ScenarioPayload ==
    [keys |-> AllKeys, left |-> <<Color(0, 0, 0)>>,
     top |-> <<Color(10, 0, 0), Color(20, 0, 0)>>, right |-> <<Color(0, 0, 10)>>]

C3_NumIsLeftCount ==
    (Returned("apply_tv_data") /\ ~call.raised) =>
        num_of_left_right_colors = Len(call.data.left)

C3_Witness ==
    /\ Returned("apply_tv_data") /\ ~call.raised
    /\ Len(call.data.left) >= 1
    /\ call.num_before > Len(call.data.left)

\* The positions of a list that are zones of the buffer, as indices of the list.
InRange(cs, ps) == {i \in 1..Len(ps) : 0 <= ps[i] /\ ps[i] < Len(cs)}

RECURSIVE ChannelSum(_, _, _, _)
ChannelSum(cs, ps, I, c) ==
    IF I = {} THEN 0
    ELSE LET i == CHOOSE j \in I : TRUE
         IN cs[ps[i] + 1][c] + ChannelSum(cs, ps, I \ {i}, c)

\* C4: get_average_color returns, per channel, the floor of the sum over the
\* positions within [0, count) divided by their number; positions outside
\* add nothing to the sum or the divisor; with no position inside it returns
\* (0,0,0).
C4_AverageIsFloorMean ==
    Returned("get_average_color") =>
        LET I == InRange(colors, call.positions)
            k == Cardinality(I)
        IN /\ ~call.raised
           /\ k = 0 => call.color = Color(0, 0, 0)
           /\ k > 0 => \A c \in 1..3 :
                  LET sum == ChannelSum(colors, call.positions, I, c)
                  IN k * call.color[c] <= sum /\ sum < k * (call.color[c] + 1)

C4_Witness ==
    /\ Returned("get_average_color")
    /\ \E i \in 1..Len(call.positions) : call.positions[i] < 0
    /\ \E i \in 1..Len(call.positions) : call.positions[i] >= Len(colors)
    /\ InRange(colors, call.positions) # {}
    /\ call.color # Color(0, 0, 0)

\* C5: get_average_color never raises; for an empty position list and for any
\* position list on an empty buffer it returns (0,0,0).
C5_AverageNeverRaises ==
    Returned("get_average_color") =>
        /\ ~call.raised
        /\ (call.positions = <<>> \/ colors = <<>>) => call.color = Color(0, 0, 0)

C5_Witness ==
    /\ Returned("get_average_color")
    /\ colors = <<>> /\ num_of_left_right_colors = -1
    /\ call.positions # <<>>

\* How often zone z occurs in a position list.
Occurrences(ps, z) == Cardinality({i \in 1..Len(ps) : ps[i] = z})

RECURSIVE WeightedSum(_, _, _, _)
WeightedSum(cs, ps, z, c) ==
    IF z < 0 THEN 0
    ELSE Occurrences(ps, z) * cs[z + 1][c] + WeightedSum(cs, ps, z - 1, c)

RECURSIVE TotalOccurrences(_, _)
TotalOccurrences(ps, z) ==
    IF z < 0 THEN 0 ELSE Occurrences(ps, z) + TotalOccurrences(ps, z - 1)

Permuted(ps) == {[i \in 1..Len(ps) |-> ps[f[i]]] : f \in Permutations(1..Len(ps))}

\* C6: get_average_color gives the same colour for every permutation of the
\* position list, and a zone that occurs k times in the list counts k times
\* in the sum and in the divisor.
C6_AverageIsMultisetMean ==
    Returned("get_average_color") =>
        /\ \A qs \in Permuted(call.positions) :
              get_average_color(colors, qs) = [raised |-> call.raised, color |-> call.color]
        /\ LET last == Len(colors) - 1
               total == TotalOccurrences(call.positions, last)
           IN total > 0 =>
                \A c \in 1..3 :
                    call.color[c] = WeightedSum(colors, call.positions, last, c) \div total

C6_Witness ==
    /\ Returned("get_average_color")
    /\ Len(call.positions) = 3
    /\ InRange(colors, call.positions) = {1, 2, 3}
    /\ call.positions[1] = call.positions[3]
    /\ call.positions[1] > call.positions[2]
    /\ call.color # get_average_color(colors, SubSeq(call.positions, 1, 2)).color

\* C7: get_average_color and is_all_black leave the colours and the left
\* counter as they were, and the same query on the buffer they leave behind
\* returns the value it just returned.
C7_QueriesKeepBuffer ==
    [][(mpc' = "returned" /\ call'.op \in {"get_average_color", "is_all_black"})
          => /\ colors' = colors
             /\ num_of_left_right_colors' = num_of_left_right_colors
             /\ call'.op = "get_average_color" =>
                    get_average_color(colors', call'.positions)
                        = [raised |-> call'.raised, color |-> call'.color]
             /\ call'.op = "is_all_black" =>
                    is_all_black(colors', call'.threshold) = call'.black]_vars

C7_Witness ==
    /\ Returned("get_average_color")
    /\ Cardinality(InRange(colors, call.positions)) >= 2
    /\ call.color # Color(0, 0, 0)
    /\ Len(colors) >= 2

\* C8: is_all_black(threshold) is true iff every channel of every stored
\* colour is at most the threshold; so it is true on an empty buffer.
C8_IsAllBlack ==
    Returned("is_all_black") =>
        (call.black <=>
            \A i \in 1..Len(colors) : \A c \in 1..3 : colors[i][c] <= call.threshold)

C8_Witness ==
    /\ Returned("is_all_black")
    /\ call.threshold = DefaultThreshold
    /\ call.black
    /\ \E i \in 1..Len(colors) : \E c \in 1..3 : colors[i][c] = DefaultThreshold

(***************************************************************************)
(* Properties of the default zone partition, checked under SpecPartition.  *)
(***************************************************************************)
RECURSIVE Flatten(_)
Flatten(lists) == IF lists = <<>> THEN <<>> ELSE Head(lists) \o Flatten(Tail(lists))

\* The lists, taken in light order, are 0, 1, ..., n-1 cut into pieces, and
\* every piece has within one of n / (number of lists) zones.
IsEvenPartition(lists, n) ==
    /\ Flatten(lists) = [z \in 1..n |-> z - 1]
    /\ \A k \in 1..Len(lists) :
          LET d == Len(lists[k]) * Len(lists) - n
          IN -Len(lists) <= d /\ d <= Len(lists)

\* C9: for L >= 1 lights and N >= 0 zones the default partition gives every
\* zone of [0,N) to exactly one light, each light an ascending run of
\* consecutive zones, the runs adjacent in light order, each within one of
\* N/L zones; for N = 4, L = 2 it is [0,1] and [2,3].  Both places that
\* compute it agree with this.
C9_DefaultPartition ==
    /\ partCall.num_lights >= 1 =>
          /\ Len(partCall.positions) = partCall.num_lights
          /\ IsEvenPartition(partCall.positions, partCall.total_positions)
          /\ Len(partCall.light_setup) = partCall.num_lights
          /\ IsEvenPartition([k \in 1..Len(partCall.light_setup) |->
                                 partCall.light_setup[k].positions],
                             partCall.total_positions)
    /\ (partCall.num_lights = 2 /\ partCall.total_positions = 4) =>
          partCall.positions = <<(<<0, 1>>), (<<2, 3>>)>>

\* Four lights over six zones: the chunk is 1.5, and two chunk ends are ties.
C9_Witness ==
    /\ partCall.num_lights = 4
    /\ partCall.total_positions = 6
    /\ partCall.positions = <<(<<0, 1>>), (<<2>>), (<<3>>), (<<4, 5>>)>>

IsFrame(data) == IsValid(data) /\ Len(data.left) + Len(data.top) + Len(data.right) > 0

\* C11: the failure counter counts consecutive failures only.  After a run of
\* failed polls that stayed within the threshold and one successful poll the
\* process has not exited, the counter is 0 and the flag is online; the
\* counter is the number of failed polls in a row, so the exit with status 10
\* is reached by T + 1 failures in a row and by nothing else.
C11_CounterCountsConsecutive ==
    /\ pc # "crashed" => tv_error_cnt = tick.streak
    /\ tick.poll = "Object" =>
          /\ tv_error_cnt = 0
          /\ tv_is_online
          /\ ~(pc = "exited" /\ exit_code = TvErrorExitCode)
          /\ (IsFrame(tick.data) /\ ~tick.asked /\ tick.interrupted = "no") => pc = "running"
    /\ (pc = "exited" /\ exit_code = TvErrorExitCode) =>
          tick.streak = runtime_error_threshold + 1

\* Two failed polls with threshold 2, then a frame.
C11_Witness ==
    /\ tick.poll = "Object" /\ IsFrame(tick.data)
    /\ runtime_error_threshold = 2
    /\ tick.before = runtime_error_threshold
    /\ tv_error_cnt = 0 /\ tv_is_online /\ pc = "running"

\* C12: no bad poll outcome (network error or timeout, a body that is not
\* JSON, JSON that is not an object, an object without layer1, left, top or
\* right) escapes as an exception: the poll counts as a failure, the pass is
\* skipped and the loop goes on, unless the threshold is exceeded.
C12_BadPollIsNoData ==
    (tick.poll \in {"RequestError", "NotJson", "NotObject"}
        \/ (tick.poll = "Object" /\ tick.data.keys # AllKeys)) =>
        /\ pc # "crashed"
        /\ tv_error_cnt = tick.streak
        /\ tick.forwarded = <<>>

\* A pass that read a black frame / a frame with content: an object that is a
\* frame, with every channel at most the threshold / with one above it.
Channels(data) ==
    {data.left[i][c] : i \in 1..Len(data.left), c \in 1..3}
        \cup {data.top[i][c] : i \in 1..Len(data.top), c \in 1..3}
        \cup {data.right[i][c] : i \in 1..Len(data.right), c \in 1..3}

ReadBlack(t) ==
    t.poll = "Object" /\ IsFrame(t.data) /\ \A v \in Channels(t.data) : v <= DefaultThreshold

ReadLive(t) ==
    t.poll = "Object" /\ IsFrame(t.data) /\ \E v \in Channels(t.data) : v > DefaultThreshold

\* C13: on the pass where content changes from live to black, black_since is
\* set to the current time and, with a positive black-screen timeout, an
\* active session stays active; on later black passes black_since is not
\* moved (it is kept, or cleared by a teardown).
C13_BlackSinceFirstFrame ==
    [][/\ (ReadBlack(tick') /\ tv_has_content) =>
             /\ tick'.paused
             /\ (hue = "None" \/ black_screen_timeout_s > 0) =>
                    /\ black_since' = <<now'>>
                    /\ hue' = hue
                    /\ pc' = "running"
       /\ (ReadBlack(tick') /\ ~tv_has_content) =>
             /\ ~tick'.paused
             /\ black_since' = black_since \/ (black_since' = <<>> /\ tick'.stopped)
       /\ ReadBlack(tick') => ~tv_has_content'
      ]_vars

\* A session is active when the first black frame arrives.
C13_Witness ==
    /\ ReadBlack(tick) /\ tick.paused
    /\ hue = "Active" /\ black_screen_timeout_s > 0
    /\ black_since = <<now>> /\ now > 0
    /\ pc = "running"

\* The time the screen has been black for at the pass that is being taken,
\* which reads a black frame.
BlackDuration == IF tv_has_content \/ black_since = <<>> THEN 0 ELSE now' - black_since[1]

\* C14: while content is black and a session is active, once 5 seconds have
\* passed since black_since the power state is asked for; an answer other
\* than "On" tears the session down in that pass (no session, black_since
\* cleared) and the loop keeps running; "On" leaves the session active.
C14_ProbeAfterGrace ==
    [][/\ (hue = "Active" /\ ReadBlack(tick') /\ BlackDuration >= PowerCheckAfterS) =>
             tick'.asked
       /\ tick'.asked =>
             /\ pc' = "running"
             /\ tick'.answer \notin {"On", ""} =>
                    tick'.stopped /\ hue' = "None" /\ black_since' = <<>>
             /\ (tick'.answer = "On" /\ BlackDuration < black_screen_timeout_s) =>
                    hue' = "Active" /\ black_since' = black_since
      ]_vars

\* C15: if content stays black while a session is active and the probe gives
\* no clear answer other than "On", the session is torn down once the black
\* duration reaches black_screen_timeout_s.
C15_FallbackTeardown ==
    [][(/\ hue = "Active" /\ ReadBlack(tick')
        /\ tick'.answer \notin {"Standby"}
        /\ BlackDuration >= black_screen_timeout_s) =>
            /\ tick'.stopped /\ hue' = "None" /\ black_since' = <<>>
            /\ pc' = "running"
      ]_vars

\* C16: a session is started lazily.  It is started in exactly the passes
\* that read a frame with content while no session is active, after
\* black_since is cleared (and is active after the pass unless a signal ends
\* the process in it); there is none at startup, and none appears in a
\* pass with a failed poll or a black frame, a black frame after a teardown
\* included.
C16_LazySessionStart ==
    /\ hue = "None"
    /\ [][/\ tick'.started <=> (hue = "None" /\ ReadLive(tick'))
          /\ (tick'.started /\ tick'.interrupted = "no") =>
                (hue' = "Active" /\ black_since' = <<>> /\ pc' = "running")
          /\ (hue = "None" /\ ~tick'.started) => hue' = "None"
         ]_vars

\* A session is started by the first frame with content after black frames
\* that ended the one before.
C16_Witness ==
    /\ tick.started /\ ReadLive(tick)
    /\ hue = "Active" /\ black_since = <<>> /\ tv_has_content
    /\ frame_count >= 2
    /\ pc = "running"

\* C17: in every pass that forwards colours, a session that is already
\* active included, the positions of every light are compared with the zone
\* count N and, if one is N or more, all lights get the default partition of
\* [0,N) before a colour is forwarded: after a forwarding pass no light has a
\* position outside the buffer.
C17_PositionsHealedEveryFrame ==
    tick.forwarded # <<>> =>
        \A k \in 1..Len(light_setup) :
            \A j \in 1..Len(light_setup[k].positions) :
                light_setup[k].positions[j] < num_colors(colors)

\* The buffer a payload stands for, and the floor of the mean of the zones of
\* a buffer that a position list names.
Buffer(data) == data.left \o data.top \o Reverse(data.right)

FloorMean(cs, ps) ==
    LET I == InRange(cs, ps)
    IN IF I = {} THEN Color(0, 0, 0)
       ELSE [c \in 1..3 |-> ChannelSum(cs, ps, I, c) \div Cardinality(I)]

\* C18: a pass that reads a frame with content forwards exactly one (id, rgb)
\* per configured light, in configuration order, rgb being the average over
\* that light's positions on the buffer built from the payload of this pass,
\* and adds one to the frame counter (after the status line, when one is
\* due, has reset it).
C18_ForwardsEveryLight ==
    [][(ReadLive(tick') /\ tick'.interrupted = "no") =>
          /\ pc' = "running"
          /\ colors' = Buffer(tick'.data)
          /\ Len(light_setup') = Len(light_setup)
          /\ Len(tick'.forwarded) = Len(light_setup)
          /\ \A k \in 1..Len(light_setup) :
                /\ light_setup'[k].id = light_setup[k].id
                /\ tick'.forwarded[k] =
                      <<light_setup[k].id, FloorMean(Buffer(tick'.data), light_setup'[k].positions)>>
          /\ frame_count' = 1 + (IF now' - last_status_time >= StatusIntervalS
                                 THEN 0 ELSE frame_count)
      ]_vars

\* Two lights get different colours from a frame that replaced another one.
C18_Witness ==
    /\ ReadLive(tick) /\ ~tick.started /\ tick.interrupted = "no"
    /\ Len(tick.forwarded) = 2
    /\ tick.forwarded[1][1] = 3 /\ tick.forwarded[2][1] = 7
    /\ tick.forwarded[1][2] # tick.forwarded[2][2]
    /\ frame_count = 2
    /\ pc = "running"

\* C19: the controller has no normal termination: whatever the device
\* answers, the loop keeps running, and it ends only by a signal or by the
\* error-threshold exit.
C19_EndsOnlyBySignalOrThreshold ==
    \/ pc = "running"
    \/ pc = "exited" /\ exit_code = TvErrorExitCode
    \/ pc = "exited" /\ tick.interrupted # "no"

\* C20: SIGINT is acted on only between passes, never in the middle of a poll
\* or of the colour forwarding, and a session that is Active at that point is
\* stopped before the process exits.
C20_InterruptBetweenTicks ==
    /\ tick.interrupted \in {"no", "sleep"}
    /\ (pc = "exited" /\ tick.interrupted # "no") => hue = "None"

(***************************************************************************)
(* Properties of the pairing handshake, checked under SpecPairing.         *)
(***************************************************************************)
\* The step just taken is a call of the pairing flow.
AfterPairingCall == last_op \in {"handle_tv_pairing", "complete_pairing"}

\* The call asked the device for a PIN and got a state with a key back.
RequestedPin == pcall.requested # <<>> /\ pcall.requested[1].auth_key # ""

\* The call asked the device to grant, and the device did.
GrantSucceeded == pcall.used # <<>> /\ pcall.grant_raised = ""

\* The pairing state that a load from the state file finds.
SavedOnDisk == load_pairing_state(state_file)

\* C21: when request_pin_display has returned a pairing state, the state is
\* in the state file, on every path that requests a PIN (handle_tv_pairing
\* and complete_pairing): a call that requested a PIN and has not been granted
\* leaves what it requested in the file, where the file can be written.
C21_RequestPersistsState ==
    (writable /\ AfterPairingCall /\ RequestedPin /\ ~GrantSucceeded) =>
        SavedOnDisk = pcall.requested

\* C22: where handle_tv_pairing has returned or raised, a pairing state is in
\* the file after every PIN request that was answered (also when the grant
\* that follows raises, and when the save meets an I/O error), and none is
\* there before a request or after a grant that succeeded.
C22_StateOnDiskIffInFlight ==
    /\ last_op = "none" => SavedOnDisk = <<>>
    /\ last_op = "handle_tv_pairing" =>
          /\ GrantSucceeded => SavedOnDisk = <<>>
          /\ (RequestedPin /\ ~GrantSucceeded) =>
                (SavedOnDisk # <<>> /\ SavedOnDisk = pcall.requested)

\* C23: a grant that the device answers with 401 fails with the invalid-PIN
\* error, every other failed grant fails with an error that is not that one,
\* and a grant that fails hands no credential pair to the caller.
C23_InvalidPinIsDistinct ==
    pcall.used # <<>> =>
        /\ pcall.answer = "401" => pcall.grant_raised = InvalidPinMessage
        /\ pcall.answer \notin {"200", "401"} =>
              (pcall.grant_raised # "" /\ pcall.grant_raised # InvalidPinMessage)
        /\ pcall.answer = "200" => pcall.grant_raised = ""
        /\ pcall.grant_raised # "" => pcall.result \in {<<>>, PinRequired}

\* A wrong PIN is given with a saved state.
C23_Witness ==
    /\ pcall.op = "handle_tv_pairing" /\ pcall.loaded # <<>>
    /\ pcall.answer = "401" /\ pcall.grant_raised = InvalidPinMessage
    /\ pcall.result = PinRequired

\* The step is a call of handle_tv_pairing.
HandleStep == last_op' = "handle_tv_pairing" /\ pcall'.calls # <<>> /\ ppc = "setup"

\* C24: a grant that succeeds makes handle_tv_pairing return the device id and
\* the auth key of the state it granted with, and the pairing state is gone
\* from the file; a grant is made with the state found in the file or with
\* the state requested in the same call and with no other, so the call that
\* follows finds no state, whatever its PIN, and requests a PIN.
C24_GrantedStateIsGone ==
    [][HandleStep =>
          /\ pcall'.used # <<>> =>
                pcall'.used \in {load_pairing_state(state_file), pcall'.requested}
          /\ (pcall'.used # <<>> /\ pcall'.grant_raised = "") =>
                /\ pcall'.raised = ""
                /\ pcall'.result = <<pcall'.used[1].device, pcall'.used[1].auth_key>>
                /\ load_pairing_state(state_file') = <<>>
          /\ (pcall.op = "handle_tv_pairing" /\ GrantSucceeded /\ ~pcall'.no_auth) =>
                /\ pcall'.loaded = <<>>
                /\ pcall'.calls[2] = "request_pin_display"
                /\ pcall'.used # <<>> => pcall'.used = pcall'.requested
      ]_vars

\* The run after a grant that succeeded: a PIN is configured, the file holds
\* no pairing state any more, and a PIN is requested.
C24_Witness ==
    /\ last_op = "handle_tv_pairing" /\ runs >= 1
    /\ pcall.before = [exists |-> TRUE, config |-> 0, tv_pairing_state |-> <<>>]
    /\ Truthy(pcall.pin) /\ pcall.loaded = <<>>
    /\ pcall.requested # <<>> /\ pcall.result = PinRequired

\* C25: the unauthenticated probe is the first thing every call of
\* handle_tv_pairing does, and when the device answers it the call returns
\* the empty credential pair, requests no PIN, asks for no grant and leaves
\* the state file as it is, whatever PIN is configured and whatever state is
\* saved.
C25_NoAuthIsTerminal ==
    [][HandleStep =>
          /\ pcall'.calls[1] = "try_connect_no_auth"
          /\ pcall'.no_auth =>
                /\ pcall'.calls = <<"try_connect_no_auth">>
                /\ pcall'.result = <<"", "">> /\ pcall'.raised = ""
                /\ pcall'.requested = <<>> /\ pcall'.used = <<>> /\ pcall'.sent = <<>>
                /\ state_file' = state_file
      ]_vars

\* The probe is answered in a run that has a PIN and a saved state.
C25_Witness ==
    /\ last_op = "handle_tv_pairing" /\ pcall.no_auth
    /\ Truthy(pcall.pin)
    /\ pcall.before.tv_pairing_state # <<>>
    /\ state_file = pcall.before
    /\ pcall.result = <<"", "">>

\* C26: when the grant with the saved state fails, with a 401 as with any
\* other error, handle_tv_pairing removes the pairing state from the file and
\* returns the PIN-required signal: it does not raise, and it does not
\* request a PIN in that call.
C26_FailedSavedGrantClears ==
    [][(HandleStep /\ pcall'.loaded # <<>> /\ pcall'.used = pcall'.loaded
           /\ pcall'.grant_raised # "") =>
          /\ load_pairing_state(state_file') = <<>>
          /\ pcall'.result = PinRequired
          /\ pcall'.raised = ""
          /\ pcall'.requested = <<>>
          /\ \A i \in 1..Len(pcall'.calls) : pcall'.calls[i] # "request_pin_display"
      ]_vars

\* The device cannot be reached for the grant with the saved state.
C26_Witness ==
    /\ last_op = "handle_tv_pairing"
    /\ pcall.loaded # <<>> /\ pcall.used = pcall.loaded
    /\ pcall.answer = "ConnectError" /\ pcall.grant_raised = GrantFailedMessage
    /\ pcall.before.tv_pairing_state # <<>> /\ SavedOnDisk = <<>>
    /\ pcall.result = PinRequired

\* C27: the handshake survives a restart.  When a call of handle_tv_pairing
\* without a PIN has requested a PIN, saved the state and returned the
\* PIN-required signal, the call of the next run, made with a PIN, grants
\* with the auth key, the timestamp and the device descriptor that were
\* saved, requests no PIN, and returns the credentials when the device
\* accepts.
C27_HandshakeSurvivesRestart ==
    [][(/\ HandleStep
        /\ pcall.op = "handle_tv_pairing" /\ ~Truthy(pcall.pin)
        /\ RequestedPin /\ pcall.result = PinRequired
        /\ pcall.file.tv_pairing_state = pcall.requested
        /\ Truthy(pcall'.pin) /\ ~pcall'.no_auth) =>
           /\ pcall'.loaded = pcall.requested
           /\ pcall'.used = pcall.requested
           /\ pcall'.sent # <<>>
           /\ pcall'.sent[1].auth_key = pcall.requested[1].auth_key
           /\ pcall'.sent[1].auth_timestamp = pcall.requested[1].timestamp
           /\ pcall'.sent[1].device = pcall.requested[1].device
           /\ pcall'.requested = <<>>
           /\ pcall'.answer = "200" =>
                 pcall'.result = <<pcall.requested[1].device, pcall.requested[1].auth_key>>
      ]_vars

\* C28: the pairing state in the state file is changed by the pairing flow
\* only: no other step that persists something removes or alters a pairing
\* state that was saved and is not granted yet.
C28_OnlyPairingTouchesState ==
    [][(SavedOnDisk # <<>> /\ load_pairing_state(state_file') # SavedOnDisk) =>
          last_op' \in {"handle_tv_pairing", "complete_pairing"}
      ]_vars

\* C30: a grant signs the timestamp of the pairing state it is given followed
\* directly by the PIN it is given, sends that timestamp and that PIN in the
\* payload and authenticates with the Digest pair (device id, auth key) of
\* that state; the signature is that of the shared key and the concatenated
\* text and depends on nothing else.
C30_GrantSignsTimestampAndPin ==
    pcall.sent # <<>> =>
        /\ pcall.used # <<>>
        /\ pcall.sent[1].auth_signature =
              <<"HMAC-SHA1", SharedKey, str(pcall.used[1].timestamp) \o str(pcall.used_pin)>>
        /\ pcall.sent[1].auth_timestamp = pcall.used[1].timestamp
        /\ pcall.sent[1].pin = str(pcall.used_pin)
        /\ pcall.sent[1].digest = <<pcall.used[1].device, pcall.used[1].auth_key>>
        /\ pcall.sent[1].device = pcall.used[1].device
        /\ pcall.sent[1].auth_key = pcall.used[1].auth_key
        /\ pcall.used_pin = (IF pcall.entered # NoPin THEN pcall.entered ELSE pcall.pin)

\* The saved state has the number 12 as its timestamp and the PIN is "3".
C30_Witness ==
    /\ pcall.op = "handle_tv_pairing" /\ pcall.loaded # <<>> /\ runs >= 1
    /\ pcall.used = pcall.loaded
    /\ pcall.used[1].timestamp = JInt(12) /\ pcall.pin = JStr(<<3>>)
    /\ pcall.sent # <<>>
    /\ pcall.sent[1].auth_signature = <<"HMAC-SHA1", SharedKey, <<1, 2, 3>>>>

(***************************************************************************)
(* Properties of the startup wait, checked under SpecStartup.              *)
(***************************************************************************)
\* C29: the wait returns only after a probe that succeeded.  With a positive
\* number of seconds configured it ends after a bounded number of probes,
\* returning or raising, and it has probed at least once when it raises;
\* with 0 configured it does not raise and goes on probing.
C29_StartupWait ==
    /\ wpc = "returned" => (probes # <<>> /\ probes[Len(probes)])
    /\ \A i \in 1..(Len(probes) - 1) : ~probes[i]
    /\ wait_for_startup_s > 0 =>
          /\ Len(probes) <= wait_for_startup_s
          /\ wpc = "raised" => (Len(probes) >= 1 /\ \A i \in 1..Len(probes) : ~probes[i])
    /\ wait_for_startup_s = 0 => wpc # "raised"

\* How often a call of the pairing flow called `name`.
TimesCalled(name) == Cardinality({i \in 1..Len(pcall.calls) : pcall.calls[i] = name})

\* C35: a call of handle_tv_pairing asks the device for a PIN at most once and
\* sends at most one grant; a PIN request that fails is the last thing the
\* call does, and the call raises the failure instead of returning.
C35_NoRetryInsideOneCall ==
    pcall.op = "handle_tv_pairing" =>
        /\ TimesCalled("request_pin_display") <= 1
        /\ TimesCalled("grant_pairing") <= 1
        /\ (TimesCalled("request_pin_display") = 1 /\ pcall.requested = <<>>) =>
              /\ pcall.calls[Len(pcall.calls)] = "request_pin_display"
              /\ pcall.raised = RequestFailedMessage
              /\ pcall.result = <<>>
              /\ pcall.sent = <<>>

\* A call whose PIN request failed.
C35_Witness ==
    /\ pcall.op = "handle_tv_pairing"
    /\ last_op = "handle_tv_pairing"
    /\ pcall.calls = <<"try_connect_no_auth", "request_pin_display">>
    /\ pcall.requested = <<>>
    /\ pcall.raised = RequestFailedMessage

\* A probe that failed before the last one.
SeenOff == \E i \in 1..(Len(probes) - 1) : ~probes[i]

\* C33: in both modes of the startup wait, a wait that returns has slept for
\* the boot time (power_on_time_s), as the last thing it did, if and only if a
\* probe failed before the one that succeeded; a wait that has not returned
\* has not slept for it.
C33_SettleSleepIffSeenOff ==
    /\ wpc = "returned" =>
          /\ SeenOff <=> (sleeps # <<>> /\ sleeps[Len(sleeps)] = "power_on_time_s")
          /\ ~SeenOff => sleeps = <<>>
    /\ \A i \in 1..Len(sleeps) : sleeps[i] = "power_on_time_s" => (i = Len(sleeps) /\ wpc = "returned")

\* A wait with a timeout that saw the device off twice and then on.
C33_Witness ==
    /\ wpc = "returned"
    /\ wait_for_startup_s # 0
    /\ probes = <<FALSE, FALSE, TRUE>>
    /\ sleeps = <<"retry", "retry", "power_on_time_s">>

(***************************************************************************)
(* Further properties of the controller's loop, checked under Spec.        *)
(***************************************************************************)
\* C31: every pass of the loop sleeps for the idle refresh rate if and only if
\* no session is active or the content last seen is black, and for the active
\* refresh rate if and only if a session is active and the content last seen is
\* live; a pass that begins without a session, as every pass before the first
\* session and every pass after a teardown does, sleeps for the idle rate.
C31_RefreshRate ==
    [][/\ tick'.rate \in {"idle", "active"}
       /\ tick'.rate = "idle" <=> (hue = "None" \/ ~tv_has_content)
       /\ tick'.rate = "active" <=> (hue = "Active" /\ tv_has_content)
       /\ (tick.stopped \/ tick = NoTick) => tick'.rate = "idle"]_vars

\* A pass slept for the idle rate although a session was active: the content
\* was black before the pass and the session outlived it.
C31_Witness ==
    /\ tick.rate = "idle"
    /\ tick.interrupted = "no"
    /\ tick.poll = "Object"
    /\ hue = "Active"
    /\ ~tv_has_content
    /\ ~tick.paused

\* C34: connectivity messages are written on transitions only.  Of the polls
\* that _read_tv takes for failures, the first of every run writes "connection
\* lost" and flips the flag to offline, the others write nothing; of the polls
\* that deliver an object, the first after a run of failures writes
\* "connection restored" and flips the flag to online, the others write
\* nothing.  (A poll answered with JSON that is no object ends the process.)
C34_MessagesOnTransitionsOnly ==
    [][(tick'.poll \notin {"none", "NotObject"}) =>
          /\ tick'.log = "lost" <=> (tick'.poll # "Object" /\ tick'.streak = 1)
          /\ tick'.log = "restored" <=> (tick'.poll = "Object" /\ tick'.before > 0)
          /\ tick'.log = "lost" <=> (tv_is_online /\ ~tv_is_online')
          /\ tick'.log = "restored" <=> (~tv_is_online /\ tv_is_online')]_vars

\* The connection is restored after two failures in a row.
C34_Witness ==
    /\ tick.log = "restored"
    /\ tick.before = 2
    /\ tv_is_online
    /\ tv_error_cnt = 0

\* C36: whenever the loop is between two polls, and when the process has
\* ended, the connectivity flag is online if and only if the counter of
\* consecutive failures is 0.
C36_OnlineIffNoFailures == tv_is_online <=> tv_error_cnt = 0

\* The device has failed to answer twice in a row and the loop goes on.
C36_Witness ==
    /\ pc = "running"
    /\ ~tv_is_online
    /\ tv_error_cnt = 2
    /\ tick.streak = 2

\* C37: between two passes of the loop, if black_since is set the content is
\* black, and if a session is active while the content is black then
\* black_since is set (and not in the future), so that the black duration is
\* defined whenever the teardown rules look at it.
C37_BlackSinceMatchesContent ==
    /\ black_since # <<>> => ~tv_has_content
    /\ (hue = "Active" /\ ~tv_has_content) => (black_since # <<>> /\ black_since[1] <= now)

\* A session has been active over a black screen for a while.
C37_Witness ==
    /\ pc = "running"
    /\ hue = "Active"
    /\ ~tv_has_content
    /\ black_since # <<>>
    /\ black_since[1] < now

\* C38: sessions are started and stopped in turn, beginning with a start: a
\* pass starts a session only when there is none and stops one only when there
\* is one, and the session state changes in no other way.  set_color is called
\* only in a pass that read a frame with content (never on a black frame or a
\* failed poll), only while a session is active, and the session it is called
\* on is active after the pass unless a signal ended the pass.
C38_SessionsAlternate ==
    [][/\ tick'.started => hue = "None"
       /\ tick'.stopped => (hue = "Active" \/ tick'.started)
       /\ hue' = "Active" <=> ((hue = "Active" \/ tick'.started) /\ ~tick'.stopped)
       /\ tick'.forwarded # <<>> =>
             /\ ReadLive(tick')
             /\ hue = "Active" \/ tick'.started
             /\ hue' = "Active" \/ tick'.interrupted # "no"]_vars

\* A session that forwarded a frame has been stopped on a black frame; the
\* loop goes on without one.
C38_Witness ==
    /\ pc = "running"
    /\ tick.stopped
    /\ tick.interrupted = "no"
    /\ ReadBlack(tick)
    /\ hue = "None"
    /\ frame_count > 0

\* C39: a pass whose poll fails without ending the process adds one to the
\* failure counter and leaves the flag offline, and changes nothing else of
\* what the loop streams from: the zone buffer, the content state,
\* black_since, the session (an active one stays active) and the positions of
\* every light are as before, and set_color is not called.
C39_FailedPollChangesOnlyCounter ==
    [][(tick'.poll \in {"RequestError", "NotJson"} /\ pc' = "running") =>
          /\ tv_error_cnt' = tv_error_cnt + 1
          /\ ~tv_is_online'
          /\ UNCHANGED <<colors, num_of_left_right_colors, tv_has_content, black_since, hue,
                         light_setup>>
          /\ tick'.forwarded = <<>>
          /\ ~tick'.started /\ ~tick'.stopped /\ ~tick'.paused /\ ~tick'.asked]_vars

\* The device has not answered for more than a minute and the session that
\* was streaming is still active.
C39_Witness ==
    /\ pc = "running"
    /\ tick.poll = "RequestError"
    /\ tick.streak = 3
    /\ hue = "Active"
    /\ tv_has_content
    /\ colors # <<>>
    /\ now >= StatusIntervalS

(***************************************************************************)
(* The status line, checked under SpecStatus.                              *)
(***************************************************************************)
\* C32: a pass writes a status line only if at least 60 seconds have passed
\* since the last one; the line reports the frame rate if a session is active
\* and the content is live, "session active, screen black" only if a session
\* is active and the content is black, and "idle" otherwise; the frame
\* counter restarts from 0 in every pass that writes a line and in no other.
C32_StatusLine ==
    [][/\ tick'.status # "" => now' - last_status_time >= StatusIntervalS
       /\ tick'.status = "streaming" => (hue = "Active" /\ tv_has_content)
       /\ tick'.status = "black" => (hue = "Active" /\ ~tv_has_content)
       /\ tick'.status = "idle" => hue = "None"
       /\ tick'.status # "" => frame_count' = (IF tick'.forwarded # <<>> THEN 1 ELSE 0)
       /\ tick'.status = "" =>
             frame_count' = frame_count + (IF tick'.forwarded # <<>> THEN 1 ELSE 0)]_vars

(***************************************************************************)
(* The reassignment of positions, checked under SpecReassign.              *)
(***************************************************************************)
\* The pass just made starts a session and finds a position that the frame
\* it read has no zone for.
Reassigned ==
    /\ tick'.started
    /\ \E k \in 1..Len(light_setup) : \E j \in 1..Len(light_setup[k].positions) :
          light_setup[k].positions[j] >= Len(Buffer(tick'.data))

\* C40: after a pass that reassigned the positions for a frame of N zones,
\* every position of every light is in 0..N-1, the lights are the same in
\* name, id and order, the pass has called set_color once for every light and
\* the loop goes on; a light left without positions (there are more lights
\* than zones) was sent (0, 0, 0).
C40_ReassignedPositionsInRange ==
    [][Reassigned =>
          LET N == Len(Buffer(tick'.data))
          IN /\ pc' = "running"
             /\ Len(light_setup') = Len(light_setup)
             /\ \A k \in 1..Len(light_setup) :
                   /\ light_setup'[k].name = light_setup[k].name
                   /\ light_setup'[k].id = light_setup[k].id
                   /\ \A j \in 1..Len(light_setup'[k].positions) :
                         light_setup'[k].positions[j] \in 0..(N - 1)
             /\ Len(tick'.forwarded) = Len(light_setup)
             /\ \A k \in 1..Len(light_setup) :
                   /\ tick'.forwarded[k][1] = light_setup[k].id
                   /\ light_setup'[k].positions = <<>> =>
                         tick'.forwarded[k][2] = Color(0, 0, 0)]_vars

\* Three lights in front of a device with two zones: a session has started,
\* the light in the middle has no position and was sent (0, 0, 0).
C40_Witness ==
    /\ pc = "running"
    /\ tick.started
    /\ Len(light_setup) = 3
    /\ num_colors(colors) = 2
    /\ \E k \in 1..Len(light_setup) :
          /\ light_setup[k].positions = <<>>
          /\ tick.forwarded[k] = <<light_setup[k].id, Color(0, 0, 0)>>
    /\ \E k \in 1..Len(light_setup) : light_setup[k].positions # <<>>

(***************************************************************************)
(* The specifications.                                                     *)
(***************************************************************************)
\* The controller's loop.
Init == CtlInit /\ MixerInit /\ CallerInit /\ PartInit /\ PairIdle /\ WaitIdle

Spec == Init /\ [][Next]_vars

\* A ColorMixer and its caller.
InitMixer == MixerInit /\ CallerInit /\ PartInit /\ CtlIdle /\ PairIdle /\ WaitIdle

SpecMixer == InitMixer /\ [][MixerNext]_vars

\* Calls of the default partition.
InitPartition == PartInit /\ MixerInit /\ CallerInit /\ CtlIdle /\ PairIdle /\ WaitIdle

SpecPartition == InitPartition /\ [][PartitionNext]_vars

\* Runs of the setup that pair with the device.
InitPairing == PairInit /\ MixerInit /\ CallerInit /\ PartInit /\ CtlIdle /\ WaitIdle

SpecPairing == InitPairing /\ [][PairingNext]_vars

\* The wait for the device at startup.
InitStartup == WaitInit /\ MixerInit /\ CallerInit /\ PartInit /\ CtlIdle /\ PairIdle

SpecStartup == InitStartup /\ [][StartupNext]_vars

\* The controller's loop over two status intervals.
SpecStatus == Init /\ [][StatusNext]_vars

\* The controller's loop in front of devices with few zones.
InitReassign == ReassignInit /\ MixerInit /\ CallerInit /\ PartInit /\ PairIdle /\ WaitIdle

SpecReassign == InitReassign /\ [][ReassignNext]_vars

====
